---------------------------- MODULE Spec2Model ----------------------------
(***************************************************************************)
(* The RuntimeExtension registry (package registry): a map from handler    *)
(* name to ExtensionRegistration behind a readiness flag and an RWMutex.   *)
(*                                                                         *)
(* Every exported method takes the lock for its whole body, so each call   *)
(* is one atomic action here.  Strings that the code parses (the           *)
(* APIVersion of a handler, the group of a GroupHook) are sequences of     *)
(* characters; strings that are only compared or copied are TLA+ strings.  *)
(*                                                                         *)
(* `last` and `prev` are history variables: the most recent call with its  *)
(* arguments and results, and the registry as it was when that call       *)
(* started.  The caller consumes a result (action Return) before the next  *)
(* call is issued.                                                         *)
(***************************************************************************)
EXTENDS Integers, Sequences, FiniteSets, TLC

VARIABLES
    ready,   \* extensionRegistry.ready
    items,   \* extensionRegistry.items: handler name -> registration
    last,    \* the most recent call: operation, arguments, results
    prev,    \* [ready, items] when the most recent call started
    warmUps, \* the number of WarmUp calls that returned nil so far
    lock,    \* extensionRegistry.lock: the writer and the readers holding it
    wr,      \* the goroutines that call WarmUp, Add and Remove: their position
    rd,      \* the goroutine that calls IsReady, List and Get: its position
    hist,    \* history of the concurrent calls (see InitHist)
    cyc,     \* the last cycle of the reconciler (see NoCycle)
    sec,     \* the last secret event mapped to requests (see NoSecretEvent)
    rc,      \* the reconcile cycles in progress: their position (see CycleIdle)
    decl,    \* per config name, the handler names it declared last (see NoDecl)
    lv,      \* the object, the extension and the work queue of one config (see NoLive)
    th       \* the goroutines that call any method of the registry (see LockIdle)

\* The variables of the calls made one at a time.
seqVars == <<last, prev, warmUps>>

\* The variables of the calls made by concurrent goroutines.
concVars == <<lock, wr, rd, hist>>

\* The variables of the reconciler.
recVars == <<cyc, sec, rc>>

\* The variables of the specifications that keep a history of their own.
auxVars == <<decl, lv, th>>

vars == <<ready, items, last, prev, warmUps, lock, wr, rd, hist, cyc, sec, rc, decl, lv, th>>

---------------------------------------------------------------------------
(* Bounds of the model. *)

\* Handlers in the status of one ExtensionConfig.
MaxHandlers == 2
\* Configs in the list handed to WarmUp.
MaxConfigs == 2
\* Handlers in all the configs of one WarmUp list together.
MaxListHandlers == 2

---------------------------------------------------------------------------
(* Values. *)

\* A nil pointer argument or an absent result.
NilPtr == [ptr |-> "nil"]

\* A nil optional field (*int32, *FailurePolicy).
Unset == "unset"

ConfigNames == {"A", "B"}

HandlerNames == {"h1", "h2"}

\* Names asked of Get: the handler names and one that nothing declares.
QueryNames == HandlerNames \cup {"h3"}

\* Spec.ClientConfig: the URL and the CA bundle.
ClientConfigs == {[URL |-> "https://extension.svc", CABundle |-> "ca0"]}

\* The request hook, timeout and failure policy a handler may declare.
\* The last one has an APIVersion with two separators.
HandlerSpecs ==
    { [APIVersion |-> <<"g", "/", "v", "1">>, Hook |-> "BeforeScale",
       TimeoutSeconds |-> Unset, FailurePolicy |-> Unset],
      [APIVersion |-> <<"g", "/", "v", "1">>, Hook |-> "AfterProvision",
       TimeoutSeconds |-> "5", FailurePolicy |-> "Fail"],
      [APIVersion |-> <<"g", "/", "v", "2">>, Hook |-> "BeforeScale",
       TimeoutSeconds |-> Unset, FailurePolicy |-> "Ignore"],
      [APIVersion |-> <<"k", "/", "v", "1">>, Hook |-> "BeforeScale",
       TimeoutSeconds |-> "5", FailurePolicy |-> Unset],
      [APIVersion |-> <<"v", "1">>, Hook |-> "BeforeScale",
       TimeoutSeconds |-> Unset, FailurePolicy |-> Unset],
      [APIVersion |-> <<"g", "/", "v", "1", "/", "x">>, Hook |-> "BeforeScale",
       TimeoutSeconds |-> Unset, FailurePolicy |-> Unset] }

\* runtimev1.ExtensionHandler
Handlers ==
    { [Name |-> n, APIVersion |-> s.APIVersion, Hook |-> s.Hook,
       TimeoutSeconds |-> s.TimeoutSeconds, FailurePolicy |-> s.FailurePolicy] :
        n \in HandlerNames, s \in HandlerSpecs }

\* Status.Handlers is a list keyed by handler name: the names of one config
\* are distinct.  The lists are enumerated in one order of the names.
NameBefore(a, b) == (a = "h1" /\ b = "h2")

HandlerLists ==
    UNION { { hs \in [1..n -> Handlers] :
                \A i, j \in 1..n : i < j => NameBefore(hs[i].Name, hs[j].Name) } :
            n \in 0..MaxHandlers }

\* runtimev1.ExtensionConfig: the fields the registry reads.
Configs ==
    { [Name |-> n, ClientConfig |-> c, Handlers |-> hs] :
        n \in ConfigNames, c \in ClientConfigs, hs \in HandlerLists }

RECURSIVE SumLen(_)
SumLen(cs) == IF cs = <<>> THEN 0 ELSE Len(Head(cs).Handlers) + SumLen(Tail(cs))

\* runtimev1.ExtensionConfigList: the configs of a list have distinct names.
ConfigLists ==
    { [Items |-> cs] :
        cs \in { cs \in UNION { [1..n -> Configs] : n \in 0..MaxConfigs } :
                   /\ \A i, j \in 1..Len(cs) : i # j => cs[i].Name # cs[j].Name
                   /\ SumLen(cs) <= MaxListHandlers } }

Groups == { <<>>, <<"g">>, <<"k">> }

Hooks == { "", "BeforeScale", "AfterProvision" }

\* runtimecatalog.GroupHook
GroupHooks == { [Group |-> g, Hook |-> h] : g \in Groups, h \in Hooks }

---------------------------------------------------------------------------
(* Errors. *)

ErrNil == [kind |-> "nil"]

InvalidArgument(op) == [kind |-> "invalid argument", op |-> op]

InvalidOperation(op) == [kind |-> "invalid operation", op |-> op]

NotRegistered(name) == [kind |-> "not registered", name |-> name]

ParseError(apiVersion) == [kind |-> "failed to parse GroupVersion", apiVersion |-> apiVersion]

\* kerrors.NewAggregate of a non-empty list.
NewAggregate(errs) == [kind |-> "aggregate", errs |-> errs]

---------------------------------------------------------------------------
(* schema.ParseGroupVersion *)

Count(s, c) == Cardinality({ i \in 1..Len(s) : s[i] = c })

Index(s, c) == CHOOSE i \in 1..Len(s) : s[i] = c /\ \A j \in 1..(i - 1) : s[j] # c

ParseGroupVersion(gv) ==
    IF Len(gv) = 0 \/ gv = <<"/">>
    THEN [ok |-> TRUE, Group |-> <<>>, Version |-> <<>>]
    ELSE IF Count(gv, "/") = 0
    THEN [ok |-> TRUE, Group |-> <<>>, Version |-> gv]
    ELSE IF Count(gv, "/") = 1
    THEN [ok |-> TRUE,
          Group |-> SubSeq(gv, 1, Index(gv, "/") - 1),
          Version |-> SubSeq(gv, Index(gv, "/") + 1, Len(gv))]
    ELSE [ok |-> FALSE, Group |-> <<>>, Version |-> <<>>]

---------------------------------------------------------------------------
(* The unexported helpers of extensionRegistry. *)

EmptyItems == [n \in {} |-> NilPtr]

\* remove that stops after the first entry it deletes.
removeFirst(its, extensionConfig) ==
    LET owned == { k \in DOMAIN its : its[k].ExtensionConfigName = extensionConfig.Name }
    IN  IF owned = {}
        THEN its
        ELSE LET k == CHOOSE k \in owned : TRUE
             IN  [n \in (DOMAIN its) \ {its[k].Name} |-> its[n]]

\* remove without the comparison of the owner: every entry is deleted.
removeAll(its, extensionConfig) == [n \in {} |-> NilPtr]

\* remove with the comparison of the owner inverted: the entries of the
\* other configs are deleted.
removeOthers(its, extensionConfig) ==
    LET gone == { its[k].Name :
                    k \in { k \in DOMAIN its :
                              its[k].ExtensionConfigName # extensionConfig.Name } }
    IN  [n \in (DOMAIN its) \ gone |-> its[n]]

\* remove: delete(r.items, e.Name) for every entry e owned by the config.
remove(its, extensionConfig) ==
    LET gone == { its[k].Name :
                    k \in { k \in DOMAIN its :
                              its[k].ExtensionConfigName = extensionConfig.Name } }
    IN  [n \in (DOMAIN its) \ gone |-> its[n]]

\* A registration that names the first config as its owner whatever config
\* declared the handler.
NewRegistrationFirstOwner(extensionConfig, e, gv) ==
    [Name |-> e.Name,
     ExtensionConfigName |-> "A",
     GroupVersionHook |-> [Group |-> gv.Group, Version |-> gv.Version, Hook |-> e.Hook],
     ClientConfig |-> extensionConfig.ClientConfig,
     TimeoutSeconds |-> e.TimeoutSeconds,
     FailurePolicy |-> e.FailurePolicy]

\* The ExtensionRegistration built for one handler.
NewRegistration(extensionConfig, e, gv) ==
    [Name |-> e.Name,
     ExtensionConfigName |-> extensionConfig.Name,
     GroupVersionHook |-> [Group |-> gv.Group, Version |-> gv.Version, Hook |-> e.Hook],
     ClientConfig |-> extensionConfig.ClientConfig,
     TimeoutSeconds |-> e.TimeoutSeconds,
     FailurePolicy |-> e.FailurePolicy]

\* The loop over Status.Handlers: the registrations and the errors, in order.
RECURSIVE parseHandlers(_, _)
parseHandlers(extensionConfig, hs) ==
    IF hs = <<>>
    THEN [registrations |-> <<>>, allErrs |-> <<>>]
    ELSE LET e == Head(hs)
             gv == ParseGroupVersion(e.APIVersion)
             rest == parseHandlers(extensionConfig, Tail(hs))
         IN  IF ~gv.ok
             THEN [registrations |-> rest.registrations,
                   allErrs |-> <<ParseError(e.APIVersion)>> \o rest.allErrs]
             ELSE [registrations |->
                       <<NewRegistration(extensionConfig, e, gv)>> \o rest.registrations,
                   allErrs |-> rest.allErrs]

\* An insert under the name of the owning config.
putUnderOwner(its, registration) ==
    [n \in (DOMAIN its) \cup {registration.ExtensionConfigName} |->
        IF n = registration.ExtensionConfigName THEN registration ELSE its[n]]

\* An insert that keeps the entry a name already has.
putIfAbsent(its, registration) ==
    [n \in (DOMAIN its) \cup {registration.Name} |->
        IF n \in DOMAIN its THEN its[n] ELSE registration]

\* r.items[registration.Name] = registration
put(its, registration) ==
    [n \in (DOMAIN its) \cup {registration.Name} |->
        IF n = registration.Name THEN registration ELSE its[n]]

RECURSIVE putAll(_, _)
putAll(its, registrations) ==
    IF registrations = <<>>
    THEN its
    ELSE putAll(put(its, Head(registrations)), Tail(registrations))

\* add that inserts the registrations it could build although a handler failed.
addKeepValid(its, extensionConfig) ==
    LET removed == remove(its, extensionConfig)
        parsed == parseHandlers(extensionConfig, extensionConfig.Handlers)
    IN  [items |-> putAll(removed, parsed.registrations),
         err |-> IF Len(parsed.allErrs) > 0 THEN NewAggregate(parsed.allErrs) ELSE ErrNil]

\* add that does not remove the config's entries first: a merge.
addMerge(its, extensionConfig) ==
    LET parsed == parseHandlers(extensionConfig, extensionConfig.Handlers)
    IN  IF Len(parsed.allErrs) > 0
        THEN [items |-> its, err |-> NewAggregate(parsed.allErrs)]
        ELSE [items |-> putAll(its, parsed.registrations), err |-> ErrNil]

\* add that drops the entries of every config before it inserts.
addReplaceAll(its, extensionConfig) ==
    LET removed == remove(its, extensionConfig)
        parsed == parseHandlers(extensionConfig, extensionConfig.Handlers)
    IN  IF Len(parsed.allErrs) > 0
        THEN [items |-> removed, err |-> NewAggregate(parsed.allErrs)]
        ELSE [items |-> putAll(EmptyItems, parsed.registrations), err |-> ErrNil]

\* add: remove the config's entries, parse every handler, and insert the
\* registrations only if none failed.
add(its, extensionConfig) ==
    LET removed == remove(its, extensionConfig)
        parsed == parseHandlers(extensionConfig, extensionConfig.Handlers)
    IN  IF Len(parsed.allErrs) > 0
        THEN [items |-> removed, err |-> NewAggregate(parsed.allErrs)]
        ELSE [items |-> putAll(removed, parsed.registrations), err |-> ErrNil]

\* The loop of WarmUp run from the last config of the list to the first.
RECURSIVE addEachBackwards(_, _)
addEachBackwards(its, cs) ==
    IF cs = <<>>
    THEN [items |-> its, allErrs |-> <<>>]
    ELSE LET rest == addEachBackwards(its, Tail(cs))
             one == add(rest.items, Head(cs))
         IN  [items |-> one.items,
              allErrs |-> IF one.err = ErrNil
                          THEN rest.allErrs
                          ELSE <<one.err>> \o rest.allErrs]

\* The loop of WarmUp: add every config, collecting the errors.
RECURSIVE addEach(_, _)
addEach(its, cs) ==
    IF cs = <<>>
    THEN [items |-> its, allErrs |-> <<>>]
    ELSE LET one == add(its, Head(cs))
             rest == addEach(one.items, Tail(cs))
         IN  [items |-> rest.items,
              allErrs |-> IF one.err = ErrNil
                          THEN rest.allErrs
                          ELSE <<one.err>> \o rest.allErrs]

---------------------------------------------------------------------------
(* The exported methods as functions of the registry: the registry after   *)
(* the call and what the call returns.                                     *)

\* WarmUp without the check of r.ready.
doWarmUpAgain(r, its, extensionConfigList) ==
    IF extensionConfigList = NilPtr
    THEN [ready |-> r, items |-> its, err |-> InvalidArgument("WarmUp")]
    ELSE LET res == addEach(its, extensionConfigList.Items)
         IN  IF Len(res.allErrs) > 0
             THEN [ready |-> r, items |-> EmptyItems, err |-> NewAggregate(res.allErrs)]
             ELSE [ready |-> TRUE, items |-> res.items, err |-> ErrNil]

\* WarmUp that marks the registry ready whatever the adds returned.
doWarmUpAlwaysReady(r, its, extensionConfigList) ==
    IF extensionConfigList = NilPtr
    THEN [ready |-> r, items |-> its, err |-> InvalidArgument("WarmUp")]
    ELSE IF r
    THEN [ready |-> r, items |-> its, err |-> InvalidOperation("WarmUp")]
    ELSE LET res == addEach(its, extensionConfigList.Items)
         IN  [ready |-> TRUE, items |-> res.items,
              err |-> IF Len(res.allErrs) > 0 THEN NewAggregate(res.allErrs) ELSE ErrNil]

\* WarmUp that does not reset the map when an add failed.
doWarmUpNoReset(r, its, extensionConfigList) ==
    IF extensionConfigList = NilPtr
    THEN [ready |-> r, items |-> its, err |-> InvalidArgument("WarmUp")]
    ELSE IF r
    THEN [ready |-> r, items |-> its, err |-> InvalidOperation("WarmUp")]
    ELSE LET res == addEach(its, extensionConfigList.Items)
         IN  IF Len(res.allErrs) > 0
             THEN [ready |-> r, items |-> res.items, err |-> NewAggregate(res.allErrs)]
             ELSE [ready |-> TRUE, items |-> res.items, err |-> ErrNil]

\* WarmUp that clears the readiness flag when it is called on a ready registry.
doWarmUpUnready(r, its, extensionConfigList) ==
    IF extensionConfigList = NilPtr
    THEN [ready |-> r, items |-> its, err |-> InvalidArgument("WarmUp")]
    ELSE IF r
    THEN [ready |-> FALSE, items |-> its, err |-> InvalidOperation("WarmUp")]
    ELSE LET res == addEach(its, extensionConfigList.Items)
         IN  IF Len(res.allErrs) > 0
             THEN [ready |-> r, items |-> EmptyItems, err |-> NewAggregate(res.allErrs)]
             ELSE [ready |-> TRUE, items |-> res.items, err |-> ErrNil]

doWarmUp(r, its, extensionConfigList) ==
    IF extensionConfigList = NilPtr
    THEN [ready |-> r, items |-> its, err |-> InvalidArgument("WarmUp")]
    ELSE IF r
    THEN [ready |-> r, items |-> its, err |-> InvalidOperation("WarmUp")]
    ELSE LET res == addEach(its, extensionConfigList.Items)
         IN  IF Len(res.allErrs) > 0
             THEN [ready |-> r, items |-> EmptyItems, err |-> NewAggregate(res.allErrs)]
             ELSE [ready |-> TRUE, items |-> res.items, err |-> ErrNil]

\* Add without the check of r.ready.
doAddCold(r, its, extensionConfig) ==
    IF extensionConfig = NilPtr
    THEN [items |-> its, err |-> InvalidArgument("Add")]
    ELSE add(its, extensionConfig)

doAdd(r, its, extensionConfig) ==
    IF extensionConfig = NilPtr
    THEN [items |-> its, err |-> InvalidArgument("Add")]
    ELSE IF ~r
    THEN [items |-> its, err |-> InvalidOperation("Add")]
    ELSE add(its, extensionConfig)

\* Remove that reports a config without registrations as an error.
doRemoveStrict(r, its, extensionConfig) ==
    IF extensionConfig = NilPtr
    THEN [items |-> its, err |-> InvalidArgument("Remove")]
    ELSE IF ~r
    THEN [items |-> its, err |-> InvalidOperation("Remove")]
    ELSE IF \A k \in DOMAIN its : its[k].ExtensionConfigName # extensionConfig.Name
    THEN [items |-> its, err |-> NotRegistered(extensionConfig.Name)]
    ELSE [items |-> remove(its, extensionConfig), err |-> ErrNil]

doRemove(r, its, extensionConfig) ==
    IF extensionConfig = NilPtr
    THEN [items |-> its, err |-> InvalidArgument("Remove")]
    ELSE IF ~r
    THEN [items |-> its, err |-> InvalidOperation("Remove")]
    ELSE [items |-> remove(its, extensionConfig), err |-> ErrNil]

\* List that compares the hook alone.
doListHookOnly(r, its, gh) ==
    IF gh.Group = <<>>
    THEN [out |-> {}, err |-> InvalidArgument("List")]
    ELSE IF gh.Hook = ""
    THEN [out |-> {}, err |-> InvalidArgument("List")]
    ELSE IF ~r
    THEN [out |-> {}, err |-> InvalidOperation("List")]
    ELSE [out |-> { its[n] : n \in { n \in DOMAIN its :
                                       its[n].GroupVersionHook.Hook = gh.Hook } },
          err |-> ErrNil]

\* List that looks at the readiness flag before its arguments.
doListReadyFirst(r, its, gh) ==
    IF ~r
    THEN [out |-> {}, err |-> InvalidOperation("List")]
    ELSE IF gh.Group = <<>> \/ gh.Hook = ""
    THEN [out |-> {}, err |-> InvalidArgument("List")]
    ELSE [out |-> { its[n] : n \in { n \in DOMAIN its :
                                       /\ its[n].GroupVersionHook.Group = gh.Group
                                       /\ its[n].GroupVersionHook.Hook = gh.Hook } },
          err |-> ErrNil]

\* The slice List returns is built by ranging over the map: its order is
\* not determined, so the result is the set of its elements.
doList(r, its, gh) ==
    IF gh.Group = <<>>
    THEN [out |-> {}, err |-> InvalidArgument("List")]
    ELSE IF gh.Hook = ""
    THEN [out |-> {}, err |-> InvalidArgument("List")]
    ELSE IF ~r
    THEN [out |-> {}, err |-> InvalidOperation("List")]
    ELSE [out |-> { its[n] : n \in { n \in DOMAIN its :
                                       /\ its[n].GroupVersionHook.Group = gh.Group
                                       /\ its[n].GroupVersionHook.Hook = gh.Hook } },
          err |-> ErrNil]

\* Get without the check of r.ready.
doGetCold(r, its, name) ==
    IF name \notin DOMAIN its
    THEN [out |-> NilPtr, err |-> NotRegistered(name)]
    ELSE [out |-> its[name], err |-> ErrNil]

doGet(r, its, name) ==
    IF ~r
    THEN [out |-> NilPtr, err |-> InvalidOperation("Get")]
    ELSE IF name \notin DOMAIN its
    THEN [out |-> NilPtr, err |-> NotRegistered(name)]
    ELSE [out |-> its[name], err |-> ErrNil]

---------------------------------------------------------------------------
(* The registry under concurrent callers.  A call is a sequence of steps:  *)
(* it takes r.lock, runs the statements of its body, and releases the lock *)
(* when it returns (defer).  One goroutine warms the registry up, one      *)
(* goroutine per config name issues the Add and Remove calls of that       *)
(* config one after another, and one goroutine reads.  SpecConc runs the   *)
(* warm-up, the calls of one config and the reader; SpecOrder runs the     *)
(* warm-up and the calls of every config.                                  *)

\* Calls one config's goroutine makes.
MaxEvents == 2

Warmer == "warm"

WriterThreads == {Warmer} \cup ConfigNames

\* The configs and lists of the concurrent callers.
ConcHandlers ==
    { h \in Handlers :
        \/ h.APIVersion = <<"g", "/", "v", "1">>
        \/ h.Name = "h1" /\ h.APIVersion = <<"g", "/", "v", "1", "/", "x">> }

ConcConfigs ==
    { c \in Configs :
        /\ \A i \in 1..Len(c.Handlers) : c.Handlers[i] \in ConcHandlers
        /\ Len(c.Handlers) = 2
              => \A i \in 1..2 : c.Handlers[i].Hook = "BeforeScale"
                                    /\ ParseGroupVersion(c.Handlers[i].APIVersion).ok }

AllParseableList(l) ==
    \A i \in 1..Len(l.Items) : \A j \in 1..Len(l.Items[i].Handlers) :
        ParseGroupVersion(l.Items[i].Handlers[j].APIVersion).ok

\* The lists of the warm-up next to a reader: config A, or A and then B.
ConcLists ==
    { l \in ConfigLists :
        /\ \A i \in 1..Len(l.Items) :
              /\ l.Items[i] \in ConcConfigs
              /\ \A j \in 1..Len(l.Items[i].Handlers) :
                    l.Items[i].Handlers[j].Hook = "BeforeScale"
        /\ Len(l.Items) >= 1 => l.Items[1].Name = "A"
        /\ Len(l.Items) = 2 => Len(l.Items[2].Handlers) = 1 }

\* The lists of the warm-up next to the calls of every config.
OrderLists ==
    { l \in ConcLists : Len(l.Items) <= 1 /\ AllParseableList(l) }

\* The configs whose calls run next to the reader.
ConcOwners == {"A"}

\* What the reader asks.
ReaderCalls ==
    { [op |-> "IsReady", gh |-> NilPtr, name |-> ""] }
    \cup { [op |-> "List", gh |-> gh, name |-> ""] :
             gh \in { gh \in GroupHooks : gh.Group = <<"g">> /\ gh.Hook # "" } }
    \cup { [op |-> "Get", gh |-> NilPtr, name |-> n] : n \in HandlerNames }

\* A write lock that waits for nobody.
CanLockAlways(lk) == TRUE

\* sync.RWMutex: Lock waits until no writer and no reader holds the lock.
CanLock(lk) == lk.writer = "none" /\ lk.readers = {}

\* A read lock that does not wait for the writer.
CanRLockAlways(lk) == TRUE

\* sync.RWMutex: RLock waits until no writer holds the lock.
CanRLock(lk) == lk.writer = "none"

WriterIdle == [pc |-> "idle", op |-> "none", cfg |-> NilPtr, list |-> NilPtr,
               i |-> 0, errs |-> <<>>, err |-> ErrNil]

ReaderIdle == [pc |-> "idle", op |-> "none", gh |-> NilPtr, name |-> "",
               err |-> ErrNil, outList |-> {}, outReg |-> NilPtr, outBool |-> FALSE]

NoneDone == [op |-> "none", cfg |-> NilPtr, err |-> ErrNil]

\* History: the registry when the lock was last released by a writer; per
\* config name the last call its goroutine completed without error and the
\* number of calls it completed; the last WarmUp that returned.
InitHist ==
    [committed |-> [ready |-> FALSE, items |-> EmptyItems],
     warmUp |-> NoneDone,
     lastGood |-> [o \in ConfigNames |-> NoneDone],
     events |-> [o \in ConfigNames |-> 0]]

InitConc ==
    /\ lock = [writer |-> "none", readers |-> {}]
    /\ wr = [t \in WriterThreads |-> WriterIdle]
    /\ rd = ReaderIdle
    /\ hist = InitHist

---------------------------------------------------------------------------
(* The reconciler: values and the functions it calls. *)

\* Handlers in the answer of one discovery call.
MaxDiscovered == 1

\* tlsCAKey: the data key of the CA certificate in a Secret.
tlsCAKey == "ca.crt"

\* types.Separator
Separator == "/"

\* metav1.Time: the zero value and a set deletion timestamp.
ZeroTime == "zero"

Times == {ZeroTime, "t1"}

\* ctrl.Request
Requests == [Name : ConfigNames, Namespace : {"ns1"}]

\* runtimev1.InjectCAFromSecretAnnotation
InjectCAFromSecretAnnotation == "runtime.cluster.x-k8s.io/inject-ca-from-secret"

\* Values of the InjectCAFromSecretAnnotation: <namespace>/<name>, a name
\* alone, an empty namespace, an empty name.
SecretRefs ==
    { <<"n", "/", "s">>, <<"s">>, <<"/", "s">>, <<"n", "/">> }

\* Handlers of the configs the reconciler sees: one that parses, one that
\* does not.
RecHandlers ==
    { h \in Handlers :
        /\ h.Hook = "BeforeScale"
        /\ h.TimeoutSeconds = Unset
        /\ h.FailurePolicy = Unset
        /\ h.APIVersion \in { <<"g", "/", "v", "1">>, <<"g", "/", "v", "1", "/", "x">> } }

\* Handler lists a discovery call answers with.
DiscoveredLists ==
    { hs \in HandlerLists :
        /\ Len(hs) <= MaxDiscovered
        /\ \A i \in 1..Len(hs) : hs[i] \in RecHandlers }

\* Status.Handlers of a stored object: what an earlier cycle discovered.
StatusHandlerLists ==
    { hs \in DiscoveredLists :
        \A i \in 1..Len(hs) : hs[i].Name = "h1" /\ ParseGroupVersion(hs[i].APIVersion).ok }

\* The annotations of an object: none, or the InjectCAFromSecretAnnotation.
AnnotationSets ==
    { [k \in {} |-> <<>>] } \cup { (InjectCAFromSecretAnnotation :> ref) : ref \in SecretRefs }

\* A condition of an object; the message is a sequence of its parts.
Condition(status, reason, message) ==
    [Status |-> status, Reason |-> reason, Message |-> message]

\* A condition that is not set on the object.
NoCondition == Condition("", "", <<>>)

\* runtimev1.ExtensionConfig as the object store holds it under the key of a
\* request.  Paused is the pause mark of the object.
Objects(req) ==
    { [Name |-> req.Name, Namespace |-> req.Namespace, Paused |-> p,
       DeletionTimestamp |-> t, Annotations |-> a, ClientConfig |-> c,
       Handlers |-> hs, Discovered |-> NoCondition, V1Beta1Discovered |-> NoCondition] :
        p \in BOOLEAN, t \in Times, a \in AnnotationSets,
        c \in ClientConfigs, hs \in StatusHandlerLists }

\* &runtimev1.ExtensionConfig{}
EmptyExtensionConfig ==
    [Name |-> "", Namespace |-> "", Paused |-> FALSE, DeletionTimestamp |-> ZeroTime,
     Annotations |-> [k \in {} |-> <<>>], ClientConfig |-> [URL |-> "", CABundle |-> ""],
     Handlers |-> <<>>, Discovered |-> NoCondition, V1Beta1Discovered |-> NoCondition]

\* Errors of the object store, of the discovery call and of the reconciler.
ErrNotFound == [kind |-> "not found"]

ErrGet == [kind |-> "get failed"]

ErrPatch == [kind |-> "patch failed"]

ErrDiscover == [kind |-> "discovery failed"]

Errorf(msg, arg) == [kind |-> "error", msg |-> msg, arg |-> arg]

Wrapf(err, msg) == [kind |-> "wrapped", msg |-> msg, cause |-> err]

\* apierrors.IsNotFound
IsNotFound(err) == err = ErrNotFound

\* r.Client.Get of the config object: the object, not found, or an error.
GetOutcomes(req) ==
    { [err |-> ErrNotFound, obj |-> NilPtr], [err |-> ErrGet, obj |-> NilPtr] }
        \cup { [err |-> ErrNil, obj |-> o] : o \in Objects(req) }

\* client.Get of the secret: an error, a secret without the CA key, a
\* secret with it.
SecretOutcomes ==
    { [err |-> ErrGet, Data |-> [k \in {} |-> ""]],
      [err |-> ErrNil, Data |-> ("tls.key" :> "k1")],
      [err |-> ErrNil, Data |-> ("ca.crt" :> "ca1")] }

\* runtimeClient.Discover: an error, or the config with the handlers the
\* extension answered.
DiscoverOutcomes ==
    { [err |-> ErrDiscover, Handlers |-> <<>>] }
        \cup { [err |-> ErrNil, Handlers |-> hs] : hs \in DiscoveredLists }

\* patchHelper.Patch
PatchOutcomes == { ErrNil, ErrPatch }

\* paused.EnsurePausedCondition: isPaused is the pause mark of the object.
EnsurePausedCondition(obj) ==
    [isPaused |-> obj.Paused, requeue |-> FALSE, err |-> ErrNil]

\* RuntimeClient.IsReady: the readiness of the registry.
RuntimeClientIsReady(r) == r

\* RuntimeClient.Register: Registry.Add.
Register(r, its, extensionConfig) == doAdd(r, its, extensionConfig)

\* RuntimeClient.Unregister: Registry.Remove.
Unregister(r, its, extensionConfig) == doRemove(r, its, extensionConfig)

\* strings.IndexRune: 0 stands for the -1 of a missing separator.
IndexRune(s, c) == IF Count(s, c) = 0 THEN 0 ELSE Index(s, c)

\* A split that takes a string without separator as namespace and name.
splitNamespacedNameWhole(nameStr) ==
    LET splitPoint == IndexRune(nameStr, Separator)
    IN  IF splitPoint = 0
        THEN [Namespace |-> nameStr, Name |-> nameStr]
        ELSE [Namespace |-> SubSeq(nameStr, 1, splitPoint - 1),
              Name |-> SubSeq(nameStr, splitPoint + 1, Len(nameStr))]

splitNamespacedName(nameStr) ==
    LET splitPoint == IndexRune(nameStr, Separator)
    IN  IF splitPoint = 0
        THEN [Namespace |-> <<>>, Name |-> nameStr]
        ELSE [Namespace |-> SubSeq(nameStr, 1, splitPoint - 1),
              Name |-> SubSeq(nameStr, splitPoint + 1, Len(nameStr))]

\* reconcileCABundle reads the secret: the annotation is set and names a
\* namespace and a name.
readsSecret(config) ==
    /\ InjectCAFromSecretAnnotation \in DOMAIN config.Annotations
    /\ splitNamespacedName(config.Annotations[InjectCAFromSecretAnnotation]).Namespace # <<>>
    /\ splitNamespacedName(config.Annotations[InjectCAFromSecretAnnotation]).Name # <<>>

\* reconcileCABundle that does not copy the bytes of the secret.
reconcileCABundleNoCopy(config, secret) ==
    IF InjectCAFromSecretAnnotation \notin DOMAIN config.Annotations
    THEN [config |-> config, err |-> ErrNil]
    ELSE IF ~readsSecret(config)
    THEN [config |-> config,
          err |-> Errorf("secret name must be in the form <namespace>/<name>",
                         config.Annotations[InjectCAFromSecretAnnotation])]
    ELSE IF secret.err # ErrNil
    THEN [config |-> config, err |-> Wrapf(secret.err, "failed to get secret")]
    ELSE IF tlsCAKey \notin DOMAIN secret.Data
    THEN [config |-> config, err |-> Errorf("secret does not contain an entry", tlsCAKey)]
    ELSE [config |-> config, err |-> ErrNil]

\* reconcileCABundle, given the answer of the secret fetch.
reconcileCABundle(config, secret) ==
    IF InjectCAFromSecretAnnotation \notin DOMAIN config.Annotations
    THEN [config |-> config, err |-> ErrNil]
    ELSE IF ~readsSecret(config)
    THEN [config |-> config,
          err |-> Errorf("secret name must be in the form <namespace>/<name>",
                         config.Annotations[InjectCAFromSecretAnnotation])]
    ELSE IF secret.err # ErrNil
    THEN [config |-> config, err |-> Wrapf(secret.err, "failed to get secret")]
    ELSE IF tlsCAKey \notin DOMAIN secret.Data
    THEN [config |-> config, err |-> Errorf("secret does not contain an entry", tlsCAKey)]
    ELSE [config |-> [config EXCEPT !.ClientConfig.CABundle = secret.Data[tlsCAKey]],
          err |-> ErrNil]

\* discoverExtensionConfig that marks the failure on an empty config
\* instead of a copy of the one it was given.
discoverExtensionConfigNoCopy(extensionConfig, discovered) ==
    IF discovered.err # ErrNil
    THEN [config |-> [extensionConfig EXCEPT
                        !.Handlers = <<>>,
                        !.V1Beta1Discovered =
                            Condition("False", "DiscoveryFailed",
                                      <<"Error in discovery: ", discovered.err>>),
                        !.Discovered =
                            Condition("False", "NotDiscovered",
                                      <<"Error in discovery: ", discovered.err>>)],
          err |-> Wrapf(discovered.err, "failed to discover ExtensionConfig")]
    ELSE [config |-> [extensionConfig EXCEPT
                        !.Handlers = discovered.Handlers,
                        !.V1Beta1Discovered = Condition("True", "", <<>>),
                        !.Discovered = Condition("True", "Discovered", <<>>)],
          err |-> ErrNil]

\* discoverExtensionConfig, given the answer of the discovery call.
discoverExtensionConfig(extensionConfig, discovered) ==
    IF discovered.err # ErrNil
    THEN [config |-> [extensionConfig EXCEPT
                        !.V1Beta1Discovered =
                            Condition("False", "DiscoveryFailed",
                                      <<"Error in discovery: ", discovered.err>>),
                        !.Discovered =
                            Condition("False", "NotDiscovered",
                                      <<"Error in discovery: ", discovered.err>>)],
          err |-> Wrapf(discovered.err, "failed to discover ExtensionConfig")]
    ELSE [config |-> [extensionConfig EXCEPT
                        !.Handlers = discovered.Handlers,
                        !.V1Beta1Discovered = Condition("True", "", <<>>),
                        !.Discovered = Condition("True", "Discovered", <<>>)],
          err |-> ErrNil]

\* The pause check that lets every cycle pass.
pauseStopsNever(p) == FALSE

\* Reconcile: err != nil || isPaused || requeue
pauseStops(p) == p.err # ErrNil \/ p.isPaused \/ p.requeue

\* The readiness gate left open.
gateClosedNever(isReady) == FALSE

\* Reconcile: !r.RuntimeClient.IsReady()
gateClosed(isReady) == ~isReady

\* The deletion check that sees no deletion marker.
deletionRequestedNever(extensionConfig) == FALSE

\* Reconcile: !extensionConfig.ObjectMeta.DeletionTimestamp.IsZero()
deletionRequested(extensionConfig) == extensionConfig.DeletionTimestamp # ZeroTime

\* The config of a deleted object without the namespace of the request.
notFoundConfigNameOnly(req) == [EmptyExtensionConfig EXCEPT !.Name = req.Name]

\* Reconcile: the empty ExtensionConfig given the name and the namespace of
\* the request, when the object is not found.
notFoundConfig(req) ==
    [EmptyExtensionConfig EXCEPT !.Name = req.Name, !.Namespace = req.Namespace]

\* The errors of discovery and patch, only the patch error kept when both
\* fail.
collectErrsLast(discoverErr, patchErr) ==
    IF patchErr # ErrNil THEN <<patchErr>>
    ELSE IF discoverErr # ErrNil THEN <<discoverErr>>
    ELSE <<>>

\* The errors of discovery alone.
collectErrsDiscover(discoverErr, patchErr) ==
    IF discoverErr # ErrNil THEN <<discoverErr>> ELSE <<>>

\* Reconcile: errs after the discovery and the patch, errs = append(errs, err).
collectErrs(discoverErr, patchErr) ==
    (IF discoverErr # ErrNil THEN <<discoverErr>> ELSE <<>>)
        \o (IF patchErr # ErrNil THEN <<patchErr>> ELSE <<>>)

\* Register although errors were collected.
returnsBeforeRegisterNever(errs) == FALSE

\* Return before Register whether errors were collected or not.
returnsBeforeRegisterAlways(errs) == TRUE

\* Reconcile: if len(errs) != 0 { return ctrl.Result{}, kerrors.NewAggregate(errs) }
returnsBeforeRegister(errs) == Len(errs) # 0

\* The error of Register dropped.
registerResultDropped(err) == ErrNil

\* Reconcile: the error returned after r.RuntimeClient.Register.
registerResult(err) ==
    IF err # ErrNil THEN Wrapf(err, "failed to register ExtensionConfig") ELSE ErrNil

\* The record of a cycle: the request, what Get answered, the calls made in
\* order, what the secret fetch and the discovery call answered, the error
\* of reconcileCABundle, the arguments of Unregister, Patch and Register,
\* the error of Register, the object as the store holds it when the cycle
\* returns, the result and the error returned.
NoCycle ==
    [op |-> "none", req |-> NilPtr, got |-> NilPtr, calls |-> <<>>,
     secret |-> NilPtr, caErr |-> ErrNil, discovered |-> NilPtr,
     unregistered |-> NilPtr, patched |-> NilPtr, registered |-> NilPtr,
     registerErr |-> ErrNil, stored |-> NilPtr, result |-> [Requeue |-> FALSE], err |-> ErrNil]

---------------------------------------------------------------------------
(* The secret watch: values and secretToExtensionConfig. *)

\* Secrets whose change is watched: metadata with namespace and name.
Secrets ==
    { [Namespace |-> <<"n">>, Name |-> <<"s">>],
      [Namespace |-> <<"m">>, Name |-> <<"s">>],
      [Namespace |-> <<"n">>, Name |-> <<"t">>] }

\* Annotation values of the stored configs: those of SecretRefs and the
\* reference of a second secret.
IndexedRefs == SecretRefs \cup { <<"m", "/", "s">> }

\* The ExtensionConfigs in the object store: for some of the config names,
\* the annotations of the object.
Stores ==
    UNION { [ns -> { [k \in {} |-> <<>>] }
                     \cup { (InjectCAFromSecretAnnotation :> ref) : ref \in IndexedRefs }] :
              ns \in SUBSET ConfigNames }

\* The index injectCAFromSecretAnnotationField: a config is indexed under the
\* value of its InjectCAFromSecretAnnotation.
IndexedUnder(store, indexKey) ==
    { n \in DOMAIN store :
        /\ InjectCAFromSecretAnnotation \in DOMAIN store[n]
        /\ store[n][InjectCAFromSecretAnnotation] = indexKey }

\* The sequences that list the elements of a set once each.
Orderings(S) ==
    { q \in [1..Cardinality(S) -> S] : \A i, j \in 1..Cardinality(S) : i # j => q[i] # q[j] }

\* r.Client.List with client.MatchingFields: an error, or the configs indexed
\* under the key, in some order.
ListOutcomes(store, indexKey) ==
    { [err |-> ErrGet, Items |-> <<>>] }
        \cup { [err |-> ErrNil, Items |-> q] : q \in Orderings(IndexedUnder(store, indexKey)) }

RECURSIVE requestsOf(_)
\* result = append(result, ctrl.Request{NamespacedName: client.ObjectKey{Name: ext.Name}})
requestsOf(names) ==
    IF names = <<>>
    THEN <<>>
    ELSE <<[Name |-> Head(names), Namespace |-> ""]>> \o requestsOf(Tail(names))

\* The index key built from the name of the secret alone.
indexKeyNameOnly(secret) == secret.Name

\* secretToExtensionConfig: secret.GetNamespace() + "/" + secret.GetName()
indexKey(secret) == secret.Namespace \o <<Separator>> \o secret.Name

\* secretToExtensionConfig, given the answer of r.Client.List; nil is the
\* empty sequence of requests.
secretToExtensionConfig(secret, listed) ==
    IF listed.err # ErrNil THEN <<>> ELSE requestsOf(listed.Items)

\* The record of a secret event: the secret, the configs in the store, the
\* answer of the list call and the requests returned.
NoSecretEvent ==
    [op |-> "none", secret |-> NilPtr, store |-> [n \in {} |-> <<>>],
     listed |-> NilPtr, result |-> <<>>]

---------------------------------------------------------------------------
(* Reconcile cycles next to each other.  The dispatcher runs one cycle per *)
(* config name at a time, cycles of different names run concurrently.  A   *)
(* cycle is a sequence of steps: every call of the registry takes r.lock   *)
(* and releases it when it returns, and the calls of the API server and of *)
(* the extension are steps of their own.                                   *)

\* The position of a cycle: pc is "idle", "isReady" (inside IsReady, read
\* lock held), "fetch", "secret" (inside the secret fetch), "discover"
\* (inside the discovery call), "register" and "unregister" (about to call
\* the registry), "registerLocked" and "unregisterLocked" (write lock held),
\* "unlock" (the registry call returns) and "done"; cfg is the config the
\* cycle works on.
CycleIdle == [pc |-> "idle", cfg |-> NilPtr]

\* The request of the cycles of a config name.
CycleRequest(o) == [Name |-> o, Namespace |-> "ns1"]

\* What r.Client.Get answers to the cycles of each config name: an error, or
\* an object without handlers whose annotation, if set, is n/s or s.
CycleGetOutcomes ==
    [o \in ConfigNames |->
        { g \in GetOutcomes(CycleRequest(o)) :
            g.err = ErrNil =>
                /\ g.obj.Handlers = <<>>
                /\ \A k \in DOMAIN g.obj.Annotations :
                      g.obj.Annotations[k] \in {<<"n", "/", "s">>, <<"s">>} }]

\* The lists of the warm-up next to the cycles: one config with one handler.
CycleLists ==
    { l \in OrderLists : Len(l.Items) = 1 /\ Len(l.Items[1].Handlers) = 1 }

\* The answers of the discovery call when cycles run next to each other.
CycleDiscoverOutcomes ==
    { d \in DiscoverOutcomes : \A i \in 1..Len(d.Handlers) : d.Handlers[i].Name = "h1" }

\* r.lock.RLock()
rLock(lk, t) == [lk EXCEPT !.readers = @ \cup {t}]

\* IsReady that returns without releasing the read lock.
rUnlockForgotten(lk, t) == lk

\* defer r.lock.RUnlock()
rUnlock(lk, t) == [lk EXCEPT !.readers = @ \ {t}]

\* r.lock.Lock()
wLock(lk, t) == [lk EXCEPT !.writer = t]

\* A writer that returns without releasing the lock.
wUnlockForgotten(lk, t) == lk

\* defer r.lock.Unlock()
wUnlock(lk, t) == [lk EXCEPT !.writer = IF @ = t THEN "none" ELSE @]

---------------------------------------------------------------------------
(* The declarations the callers made: for every config name, the handler   *)
(* names of the config of that name passed last to a WarmUp or an Add that *)
(* returned nil, and whether a Remove of that name was called since.       *)

NoDecl == [o \in ConfigNames |-> [names |-> {}, removed |-> FALSE]]

\* The handler names a config declares.
DeclaredNames(extensionConfig) ==
    { extensionConfig.Handlers[i].Name : i \in 1..Len(extensionConfig.Handlers) }

\* The declarations after a call of Add or of WarmUp's loop with the config
\* returned nil.
Declare(d, extensionConfig) ==
    [d EXCEPT ![extensionConfig.Name] =
        [names |-> DeclaredNames(extensionConfig), removed |-> FALSE]]

RECURSIVE DeclareEach(_, _)
DeclareEach(d, cs) ==
    IF cs = <<>> THEN d ELSE DeclareEach(Declare(d, Head(cs)), Tail(cs))

\* The declarations after a call of Remove with the config.
Retract(d, extensionConfig) ==
    [d EXCEPT ![extensionConfig.Name] = [names |-> {}, removed |-> TRUE]]

---------------------------------------------------------------------------
(* One config under retry.  The dispatcher keeps a request for the config  *)
(* in its work queue as long as the last cycle returned an error or asked  *)
(* for a requeue.  The API server, the secret and the extension fail at    *)
(* will while the phase is "flaky" and answer without error from the       *)
(* moment the phase is "stable".                                           *)

\* phase is "none" before the object exists; queued tells whether a request
\* is in the work queue; obj is the object as the API server stores it;
\* want is the handler list the extension answers with when it answers;
\* failed tells whether a cycle returned an error or asked for a requeue.
NoLive == [phase |-> "none", queued |-> FALSE, obj |-> NilPtr, want |-> <<>>, failed |-> FALSE]

LiveName == "A"

\* The objects under retry: not paused, not being deleted, without
\* annotation or with one that names a namespace and a name.
LiveObjects ==
    { o \in Objects(CycleRequest(LiveName)) :
        /\ ~o.Paused
        /\ o.DeletionTimestamp = ZeroTime
        /\ o.Handlers = <<>>
        /\ \A k \in DOMAIN o.Annotations : o.Annotations[k] = <<"n", "/", "s">> }

\* The handler lists of the extension: every APIVersion parses.
LiveWants ==
    { hs \in DiscoveredLists : \A i \in 1..Len(hs) : ParseGroupVersion(hs[i].APIVersion).ok }

\* The lists of the warm-up: none of its configs fails.
LiveLists == { l \in OrderLists : Len(l.Items) = 0 } \cup CycleLists

\* What r.Client.Get of the object returns.
LiveGetErrs(phase) == IF phase = "stable" THEN {ErrNil} ELSE {ErrNil, ErrGet}

\* What the secret fetch answers.
LiveSecretOutcomes(phase) ==
    IF phase = "stable"
    THEN { o \in SecretOutcomes : o.err = ErrNil /\ tlsCAKey \in DOMAIN o.Data }
    ELSE SecretOutcomes

\* What the discovery call answers: while flaky an error, the handler list
\* of the extension, or a list with an APIVersion that does not parse.
LiveDiscoverOutcomes(phase, want) ==
    IF phase = "stable"
    THEN { [err |-> ErrNil, Handlers |-> want] }
    ELSE { [err |-> ErrDiscover, Handlers |-> <<>>], [err |-> ErrNil, Handlers |-> want] }
            \cup { d \in DiscoverOutcomes : d.err = ErrNil /\ d.Handlers \notin LiveWants }

\* What the patch returns.
LivePatchOutcomes(phase) == IF phase = "stable" THEN {ErrNil} ELSE PatchOutcomes

\* Reconcile as a function of the registry, the stored object and the
\* answers of the calls it makes: the map it leaves, the object the store
\* holds afterwards, and whether the dispatcher runs the request again (an
\* error was returned or Requeue is set).
reconcileOutcome(r, its, obj, getErr, secret, discovered, patchErr) ==
    IF gateClosed(RuntimeClientIsReady(r))
    THEN [items |-> its, stored |-> obj, again |-> TRUE]
    ELSE IF getErr # ErrNil
    THEN [items |-> its, stored |-> obj, again |-> TRUE]
    ELSE IF pauseStops(EnsurePausedCondition(obj))
    THEN [items |-> its, stored |-> obj, again |-> FALSE]
    ELSE IF deletionRequested(obj)
    THEN [items |-> Unregister(r, its, obj).items, stored |-> obj,
          again |-> Unregister(r, its, obj).err # ErrNil]
    ELSE LET ca == reconcileCABundle(obj, secret)
         IN  IF ca.err # ErrNil
             THEN [items |-> its, stored |-> obj, again |-> TRUE]
             ELSE LET d == discoverExtensionConfig(ca.config, discovered)
                      errs == collectErrs(d.err, patchErr)
                      stored == IF patchErr = ErrNil THEN d.config ELSE obj
                      res == Register(r, its, d.config)
                  IN  IF returnsBeforeRegister(errs)
                      THEN [items |-> its, stored |-> stored, again |-> TRUE]
                      ELSE [items |-> res.items, stored |-> stored,
                            again |-> registerResult(res.err) # ErrNil]

---------------------------------------------------------------------------
(* Every method of the registry called by concurrent goroutines.  A call   *)
(* checks its arguments, waits for r.lock, runs its body and releases the  *)
(* lock when it returns.                                                   *)

LockThreads == {"t1", "t2", "t3"}

\* The goroutine that only asks whether the registry is ready.
LockReaders == {"t3"}

\* The position of a goroutine: pc is "idle", "rejected" (the arguments were
\* refused, the call returns without the lock), "waiting" (at r.lock.Lock()
\* or r.lock.RLock()), "pending" (inside r.lock.Lock(): the writer has
\* announced itself and waits for the readers to leave), "body" (the lock
\* is held) or "unlock" (the body is done, the deferred unlock is due); the
\* call and the error it returns.
LockIdle ==
    [pc |-> "idle", op |-> "none", cfg |-> NilPtr, list |-> NilPtr, gh |-> NilPtr,
     name |-> "", err |-> ErrNil]

\* The configs of the calls: one handler, with an APIVersion that parses or
\* one that does not.
LockConfigs ==
    { c \in Configs :
        /\ c.Name = "A"
        /\ Len(c.Handlers) = 1
        /\ c.Handlers[1] \in RecHandlers
        /\ c.Handlers[1].Name = "h1" }

\* The calls a goroutine makes.
LockCalls ==
    { [LockIdle EXCEPT !.op = "WarmUp", !.list = l] :
        l \in {NilPtr} \cup { [Items |-> <<c>>] : c \in LockConfigs } }
    \cup { [LockIdle EXCEPT !.op = op, !.cfg = c] :
             op \in {"Add", "Remove"}, c \in {NilPtr} \cup LockConfigs }
    \cup { [LockIdle EXCEPT !.op = "IsReady"] }
    \cup { [LockIdle EXCEPT !.op = "List", !.gh = gh] :
             gh \in { gh \in GroupHooks :
                        \/ gh.Group = <<>> /\ gh.Hook = "BeforeScale"
                        \/ gh.Group = <<"g">> /\ gh.Hook \in {"", "BeforeScale"} } }
    \cup { [LockIdle EXCEPT !.op = "Get", !.name = "h1"] }

\* The error of the checks a call makes before it takes the lock.
argumentError(call) ==
    IF call.op = "WarmUp" /\ call.list = NilPtr THEN InvalidArgument("WarmUp")
    ELSE IF call.op = "Add" /\ call.cfg = NilPtr THEN InvalidArgument("Add")
    ELSE IF call.op = "Remove" /\ call.cfg = NilPtr THEN InvalidArgument("Remove")
    ELSE IF call.op = "List" /\ (call.gh.Group = <<>> \/ call.gh.Hook = "")
    THEN InvalidArgument("List")
    ELSE ErrNil

\* WarmUp, Add and Remove take r.lock.Lock(); IsReady, List and Get take
\* r.lock.RLock().
Writes(call) == call.op \in {"WarmUp", "Add", "Remove"}

\* The body of a call under the lock: the registry it leaves and its error.
lockedBody(r, its, call) ==
    IF call.op = "WarmUp"
    THEN doWarmUp(r, its, call.list)
    ELSE IF call.op = "Add"
    THEN [ready |-> r, items |-> doAdd(r, its, call.cfg).items,
          err |-> doAdd(r, its, call.cfg).err]
    ELSE IF call.op = "Remove"
    THEN [ready |-> r, items |-> doRemove(r, its, call.cfg).items,
          err |-> doRemove(r, its, call.cfg).err]
    ELSE IF call.op = "List"
    THEN [ready |-> r, items |-> its, err |-> doList(r, its, call.gh).err]
    ELSE IF call.op = "Get"
    THEN [ready |-> r, items |-> its, err |-> doGet(r, its, call.name).err]
    ELSE [ready |-> r, items |-> its, err |-> ErrNil]

---------------------------------------------------------------------------
(* The state machine. *)

\* The record of a call.  Fields a call does not use hold NilPtr, {} or FALSE.
Call(op, cfg, list, gh, name, err, outList, outReg, outBool) ==
    [op |-> op, cfg |-> cfg, list |-> list, gh |-> gh, name |-> name,
     err |-> err, outList |-> outList, outReg |-> outReg, outBool |-> outBool]

NoCall == Call("none", NilPtr, NilPtr, NilPtr, "", ErrNil, {}, NilPtr, FALSE)

Snapshot == [ready |-> ready, items |-> items]

\* New()
Init ==
    /\ ready = FALSE
    /\ items = EmptyItems
    /\ last = NoCall
    /\ prev = [ready |-> FALSE, items |-> EmptyItems]
    /\ warmUps = 0
    /\ InitConc
    /\ cyc = NoCycle
    /\ sec = NoSecretEvent
    /\ rc = [o \in ConfigNames |-> CycleIdle]
    /\ decl = NoDecl
    /\ lv = NoLive
    /\ th = [t \in LockThreads |-> LockIdle]

Idle == last.op = "none" /\ cyc.op = "none"

WarmUp ==
    /\ Idle
    /\ \E l \in ConfigLists \cup {NilPtr} :
        LET res == doWarmUp(ready, items, l)
        IN  /\ ready' = res.ready
            /\ items' = res.items
            /\ last' = Call("WarmUp", NilPtr, l, NilPtr, "", res.err, {}, NilPtr, FALSE)
            /\ warmUps' = IF res.err = ErrNil THEN warmUps + 1 ELSE warmUps
    /\ prev' = Snapshot
    /\ UNCHANGED <<concVars, recVars, auxVars>>

IsReady ==
    /\ Idle
    /\ last' = Call("IsReady", NilPtr, NilPtr, NilPtr, "", ErrNil, {}, NilPtr, ready)
    /\ prev' = Snapshot
    /\ UNCHANGED <<ready, items, warmUps>>
    /\ UNCHANGED <<concVars, recVars, auxVars>>

Add ==
    /\ Idle
    /\ \E c \in Configs \cup {NilPtr} :
        LET res == doAdd(ready, items, c)
        IN  /\ items' = res.items
            /\ last' = Call("Add", c, NilPtr, NilPtr, "", res.err, {}, NilPtr, FALSE)
    /\ prev' = Snapshot
    /\ UNCHANGED <<ready, warmUps>>
    /\ UNCHANGED <<concVars, recVars, auxVars>>

Remove ==
    /\ Idle
    /\ \E c \in Configs \cup {NilPtr} :
        LET res == doRemove(ready, items, c)
        IN  /\ items' = res.items
            /\ last' = Call("Remove", c, NilPtr, NilPtr, "", res.err, {}, NilPtr, FALSE)
    /\ prev' = Snapshot
    /\ UNCHANGED <<ready, warmUps>>
    /\ UNCHANGED <<concVars, recVars, auxVars>>

List ==
    /\ Idle
    /\ \E gh \in GroupHooks :
        LET res == doList(ready, items, gh)
        IN  last' = Call("List", NilPtr, NilPtr, gh, "", res.err, res.out, NilPtr, FALSE)
    /\ prev' = Snapshot
    /\ UNCHANGED <<ready, items, warmUps>>
    /\ UNCHANGED <<concVars, recVars, auxVars>>

Get ==
    /\ Idle
    /\ \E name \in QueryNames :
        LET res == doGet(ready, items, name)
        IN  last' = Call("Get", NilPtr, NilPtr, NilPtr, name, res.err, {}, res.out, FALSE)
    /\ prev' = Snapshot
    /\ UNCHANGED <<ready, items, warmUps>>
    /\ UNCHANGED <<concVars, recVars, auxVars>>

\* The caller has consumed the result of the last call.
Return ==
    /\ last.op # "none"
    /\ last' = NoCall
    /\ prev' = Snapshot
    /\ UNCHANGED <<ready, items, warmUps>>
    /\ UNCHANGED <<concVars, recVars, auxVars>>

Next ==
    \/ WarmUp
    \/ IsReady
    \/ Add
    \/ Remove
    \/ List
    \/ Get
    \/ Return

Spec == Init /\ [][Next]_vars

---------------------------------------------------------------------------
(* The steps of the concurrent callers. *)

NamesOf(c) == { c.Handlers[i].Name : i \in 1..Len(c.Handlers) }


\* WarmUp: r.lock.Lock() (the list is not nil).
WarmUpLock(lists) ==
    /\ wr[Warmer].pc = "idle"
    /\ CanLock(lock)
    /\ \E l \in lists :
          wr' = [wr EXCEPT ![Warmer] = [WriterIdle EXCEPT !.pc = "check", !.op = "WarmUp",
                                                          !.list = l, !.i = 1]]
    /\ lock' = [lock EXCEPT !.writer = Warmer]
    /\ UNCHANGED <<ready, items, rd, hist, seqVars, recVars, auxVars>>

\* WarmUp: if r.ready, return the invalid-operation error.
WarmUpCheck ==
    /\ wr[Warmer].pc = "check"
    /\ wr' = [wr EXCEPT ![Warmer].pc = IF ready THEN "unlock" ELSE "loop",
                        ![Warmer].err = IF ready THEN InvalidOperation("WarmUp") ELSE ErrNil]
    /\ UNCHANGED <<ready, items, lock, rd, hist, seqVars, recVars, auxVars>>

\* WarmUp: r.add of the next config, its call of remove.
WarmUpAddRemove ==
    /\ wr[Warmer].pc = "loop"
    /\ wr[Warmer].i <= Len(wr[Warmer].list.Items)
    /\ items' = remove(items, wr[Warmer].list.Items[wr[Warmer].i])
    /\ wr' = [wr EXCEPT ![Warmer].pc = "insert"]
    /\ UNCHANGED <<ready, lock, rd, hist, seqVars, recVars, auxVars>>

\* WarmUp: r.add of the next config, from the parse loop to its return.
WarmUpAddInsert ==
    /\ wr[Warmer].pc = "insert"
    /\ LET c == wr[Warmer].list.Items[wr[Warmer].i]
           parsed == parseHandlers(c, c.Handlers)
       IN  IF Len(parsed.allErrs) > 0
           THEN /\ wr' = [wr EXCEPT ![Warmer].pc = "loop", ![Warmer].i = @ + 1,
                                    ![Warmer].errs = Append(@, NewAggregate(parsed.allErrs))]
                /\ UNCHANGED items
           ELSE /\ wr' = [wr EXCEPT ![Warmer].pc = "loop", ![Warmer].i = @ + 1]
                /\ items' = putAll(items, parsed.registrations)
    /\ UNCHANGED <<ready, lock, rd, hist, seqVars, recVars, auxVars>>

\* WarmUp: after the loop, reset the map or set r.ready.
WarmUpFinish ==
    /\ wr[Warmer].pc = "loop"
    /\ wr[Warmer].i > Len(wr[Warmer].list.Items)
    /\ IF Len(wr[Warmer].errs) > 0
       THEN /\ items' = EmptyItems
            /\ wr' = [wr EXCEPT ![Warmer].pc = "unlock",
                                ![Warmer].err = NewAggregate(wr[Warmer].errs)]
            /\ UNCHANGED ready
       ELSE /\ ready' = TRUE
            /\ wr' = [wr EXCEPT ![Warmer].pc = "unlock"]
            /\ UNCHANGED items
    /\ UNCHANGED <<lock, rd, hist, seqVars, recVars, auxVars>>

\* Add: r.lock.Lock() (the config is not nil).
AddLock(o) ==
    /\ wr[o].pc = "idle"
    /\ hist.events[o] < MaxEvents
    /\ CanLock(lock)
    /\ \E c \in { c \in ConcConfigs : c.Name = o } :
          wr' = [wr EXCEPT ![o] = [WriterIdle EXCEPT !.pc = "check", !.op = "Add", !.cfg = c]]
    /\ lock' = [lock EXCEPT !.writer = o]
    /\ UNCHANGED <<ready, items, rd, hist, seqVars, recVars, auxVars>>

\* Add: if !r.ready, return the invalid-operation error.
AddCheck(o) ==
    /\ wr[o].pc = "check"
    /\ wr[o].op = "Add"
    /\ wr' = [wr EXCEPT ![o].pc = IF ready THEN "remove" ELSE "unlock",
                        ![o].err = IF ready THEN ErrNil ELSE InvalidOperation("Add")]
    /\ UNCHANGED <<ready, items, lock, rd, hist, seqVars, recVars, auxVars>>

\* Add: r.add, its call of remove.
AddRemove(o) ==
    /\ wr[o].pc = "remove"
    /\ wr[o].op = "Add"
    /\ items' = remove(items, wr[o].cfg)
    /\ wr' = [wr EXCEPT ![o].pc = "insert"]
    /\ UNCHANGED <<ready, lock, rd, hist, seqVars, recVars, auxVars>>

\* Add: r.add, from the parse loop to its return.
AddInsert(o) ==
    /\ wr[o].pc = "insert"
    /\ LET parsed == parseHandlers(wr[o].cfg, wr[o].cfg.Handlers)
       IN  IF Len(parsed.allErrs) > 0
           THEN /\ wr' = [wr EXCEPT ![o].pc = "unlock",
                                    ![o].err = NewAggregate(parsed.allErrs)]
                /\ UNCHANGED items
           ELSE /\ wr' = [wr EXCEPT ![o].pc = "unlock"]
                /\ items' = putAll(items, parsed.registrations)
    /\ UNCHANGED <<ready, lock, rd, hist, seqVars, recVars, auxVars>>

\* Remove: r.lock.Lock() (the config is not nil).
RemoveLock(o) ==
    /\ wr[o].pc = "idle"
    /\ hist.events[o] < MaxEvents
    /\ CanLock(lock)
    /\ \E c \in { c \in ConcConfigs : c.Name = o /\ c.Handlers = <<>> } :
          wr' = [wr EXCEPT ![o] = [WriterIdle EXCEPT !.pc = "check", !.op = "Remove", !.cfg = c]]
    /\ lock' = [lock EXCEPT !.writer = o]
    /\ UNCHANGED <<ready, items, rd, hist, seqVars, recVars, auxVars>>

\* Remove: if !r.ready, return the error; otherwise r.remove.
RemoveBody(o) ==
    /\ wr[o].pc = "check"
    /\ wr[o].op = "Remove"
    /\ IF ready
       THEN /\ items' = remove(items, wr[o].cfg)
            /\ wr' = [wr EXCEPT ![o].pc = "unlock"]
       ELSE /\ wr' = [wr EXCEPT ![o].pc = "unlock", ![o].err = InvalidOperation("Remove")]
            /\ UNCHANGED items
    /\ UNCHANGED <<ready, lock, rd, hist, seqVars, recVars, auxVars>>

\* The deferred r.lock.Unlock() of WarmUp, Add and Remove, and the return.
Unlock(t) ==
    /\ wr[t].pc = "unlock"
    /\ lock' = [lock EXCEPT !.writer = IF @ = t THEN "none" ELSE @]
    /\ wr' = [wr EXCEPT ![t] = WriterIdle]
    /\ hist' = IF t = Warmer
               THEN [hist EXCEPT !.committed = Snapshot,
                                 !.warmUp = [op |-> "WarmUp", cfg |-> NilPtr,
                                             err |-> wr[t].err]]
               ELSE [hist EXCEPT !.committed = Snapshot,
                                 !.lastGood[t] = IF wr[t].err = ErrNil
                                                 THEN [op |-> wr[t].op, cfg |-> wr[t].cfg,
                                                       err |-> wr[t].err]
                                                 ELSE @,
                                 !.events[t] = @ + 1]
    /\ UNCHANGED <<ready, items, rd, seqVars, recVars, auxVars>>

\* The reader calls IsReady, List (group and hook not empty) or Get.
ReadCall ==
    /\ rd.pc = "idle"
    /\ \E c \in ReaderCalls :
          rd' = [ReaderIdle EXCEPT !.pc = "rlock", !.op = c.op, !.gh = c.gh, !.name = c.name]
    /\ UNCHANGED <<ready, items, lock, wr, hist, seqVars, recVars, auxVars>>

\* r.lock.RLock()
RLock ==
    /\ rd.pc = "rlock"
    /\ CanRLock(lock)
    /\ lock' = [lock EXCEPT !.readers = @ \cup {"reader"}]
    /\ rd' = [rd EXCEPT !.pc = "read"]
    /\ UNCHANGED <<ready, items, wr, hist, seqVars, recVars, auxVars>>

\* The body of IsReady, List or Get.
ReadBody ==
    /\ rd.pc = "read"
    /\ rd' = CASE rd.op = "IsReady" -> [rd EXCEPT !.pc = "runlock", !.outBool = ready]
               [] rd.op = "List" ->
                    LET res == doList(ready, items, rd.gh)
                    IN  [rd EXCEPT !.pc = "runlock", !.err = res.err, !.outList = res.out]
               [] rd.op = "Get" ->
                    LET res == doGet(ready, items, rd.name)
                    IN  [rd EXCEPT !.pc = "runlock", !.err = res.err, !.outReg = res.out]
    /\ UNCHANGED <<ready, items, lock, wr, hist, seqVars, recVars, auxVars>>

\* The deferred r.lock.RUnlock() and the return.
RUnlock ==
    /\ rd.pc = "runlock"
    /\ lock' = [lock EXCEPT !.readers = @ \ {"reader"}]
    /\ rd' = ReaderIdle
    /\ UNCHANGED <<ready, items, wr, hist, seqVars, recVars, auxVars>>

NextConc ==
    \/ WarmUpLock(ConcLists)
    \/ WarmUpCheck
    \/ WarmUpAddRemove
    \/ WarmUpAddInsert
    \/ WarmUpFinish
    \/ \E o \in ConcOwners : AddLock(o)
    \/ \E o \in ConcOwners : AddCheck(o)
    \/ \E o \in ConcOwners : AddRemove(o)
    \/ \E o \in ConcOwners : AddInsert(o)
    \/ \E o \in ConcOwners : RemoveLock(o)
    \/ \E o \in ConcOwners : RemoveBody(o)
    \/ \E t \in WriterThreads : Unlock(t)
    \/ ReadCall
    \/ RLock
    \/ ReadBody
    \/ RUnlock

NextOrder ==
    \/ WarmUpLock(OrderLists)
    \/ WarmUpCheck
    \/ WarmUpAddRemove
    \/ WarmUpAddInsert
    \/ WarmUpFinish
    \/ \E o \in ConfigNames : AddLock(o)
    \/ \E o \in ConfigNames : AddCheck(o)
    \/ \E o \in ConfigNames : AddRemove(o)
    \/ \E o \in ConfigNames : AddInsert(o)
    \/ \E o \in ConfigNames : RemoveLock(o)
    \/ \E o \in ConfigNames : RemoveBody(o)
    \/ \E t \in WriterThreads : Unlock(t)

SpecConc == Init /\ [][NextConc]_vars

SpecOrder == Init /\ [][NextOrder]_vars

---------------------------------------------------------------------------
(* The reconciler. *)

\* The cycle returns: its record and the registry it leaves.
Returns(c, its) ==
    /\ cyc' = c
    /\ items' = its
    /\ prev' = Snapshot
    /\ UNCHANGED <<ready, last, warmUps, concVars, sec, rc, auxVars>>

reconcileDelete(c, extensionConfig) ==
    LET res == Unregister(ready, items, extensionConfig)
    IN  Returns([c EXCEPT !.calls = Append(@, "Unregister"),
                          !.unregistered = extensionConfig,
                          !.err = IF res.err # ErrNil
                                  THEN Wrapf(res.err, "failed to unregister ExtensionConfig")
                                  ELSE ErrNil],
                res.items)

\* Reconcile from the discovery call on.
reconcileDiscover(c, original, extensionConfig) ==
    \E discovered \in DiscoverOutcomes, patchErr \in PatchOutcomes :
        LET d == discoverExtensionConfig(extensionConfig, discovered)
            errs == collectErrs(d.err, patchErr)
            c1 == [c EXCEPT !.calls = @ \o <<"Discover", "Patch">>,
                            !.discovered = discovered,
                            !.patched = [original |-> original, modified |-> d.config,
                                         err |-> patchErr],
                            !.stored = IF patchErr = ErrNil THEN d.config ELSE @]
            res == Register(ready, items, d.config)
        IN  IF returnsBeforeRegister(errs)
            THEN Returns([c1 EXCEPT !.err = NewAggregate(errs)], items)
            ELSE Returns([c1 EXCEPT !.calls = Append(@, "Register"),
                                    !.registered = d.config,
                                    !.registerErr = res.err,
                                    !.err = registerResult(res.err)],
                         res.items)

\* Reconcile from reconcileCABundle on.
reconcileInject(c, original) ==
    \E secret \in IF readsSecret(original) THEN SecretOutcomes ELSE {NilPtr} :
        LET ca == reconcileCABundle(original, secret)
            c1 == IF readsSecret(original)
                  THEN [c EXCEPT !.calls = Append(@, "GetSecret"), !.secret = secret,
                                 !.caErr = ca.err]
                  ELSE [c EXCEPT !.caErr = ca.err]
        IN  IF ca.err # ErrNil
            THEN Returns([c1 EXCEPT !.err = ca.err], items)
            ELSE reconcileDiscover(c1, original, ca.config)

\* Reconcile: one cycle for a request.
Reconcile ==
    /\ Idle
    /\ \E req \in Requests :
        LET c0 == [NoCycle EXCEPT !.op = "Reconcile", !.req = req, !.calls = <<"IsReady">>]
        IN  IF gateClosed(RuntimeClientIsReady(ready))
            THEN Returns([c0 EXCEPT !.result = [Requeue |-> TRUE]], items)
            ELSE \E got \in GetOutcomes(req) :
                LET c1 == [c0 EXCEPT !.calls = Append(@, "Get"), !.got = got,
                                     !.stored = got.obj]
                IN  IF got.err # ErrNil
                    THEN IF IsNotFound(got.err)
                         THEN reconcileDelete(c1, notFoundConfig(req))
                         ELSE Returns([c1 EXCEPT !.err = got.err], items)
                    ELSE LET p == EnsurePausedCondition(got.obj)
                             c2 == [c1 EXCEPT !.calls = Append(@, "EnsurePausedCondition")]
                         IN  IF pauseStops(p)
                             THEN Returns([c2 EXCEPT !.err = p.err], items)
                             ELSE IF deletionRequested(got.obj)
                             THEN reconcileDelete(c2, got.obj)
                             ELSE reconcileInject(c2, got.obj)

\* The dispatcher has consumed the result of the cycle.
ReconcileReturn ==
    /\ cyc.op # "none"
    /\ cyc' = NoCycle
    /\ prev' = Snapshot
    /\ UNCHANGED <<ready, items, last, warmUps, concVars, sec, rc, auxVars>>

NextRec ==
    \/ WarmUp
    \/ Return
    \/ Reconcile
    \/ ReconcileReturn

SpecRec == Init /\ [][NextRec]_vars

---------------------------------------------------------------------------
(* The secret watch. *)

\* A watched secret changes: the handler maps it to requests.
SecretChanged ==
    /\ sec.op = "none"
    /\ \E secret \in Secrets, store \in Stores :
        \E listed \in ListOutcomes(store, indexKey(secret)) :
            sec' = [op |-> "secretToExtensionConfig", secret |-> secret, store |-> store,
                    listed |-> listed,
                    result |-> secretToExtensionConfig(secret, listed)]
    /\ UNCHANGED <<ready, items, seqVars, concVars, cyc, rc, auxVars>>

\* The requests have been queued.
SecretQueued ==
    /\ sec.op # "none"
    /\ sec' = NoSecretEvent
    /\ UNCHANGED <<ready, items, seqVars, concVars, cyc, rc, auxVars>>

NextSecret ==
    \/ SecretChanged
    \/ SecretQueued

SpecSecret == Init /\ [][NextSecret]_vars

---------------------------------------------------------------------------
(* The steps of the reconcile cycles that run next to each other. *)

\* Reconcile calls r.RuntimeClient.IsReady; IsReady: r.lock.RLock()
CycleIsReadyRLock(o) ==
    /\ rc[o].pc = "idle"
    /\ CanRLock(lock)
    /\ lock' = rLock(lock, o)
    /\ rc' = [rc EXCEPT ![o].pc = "isReady"]
    /\ UNCHANGED <<ready, items, wr, rd, hist, seqVars, cyc, sec, auxVars>>

\* IsReady: return r.ready, the deferred RUnlock runs; Reconcile: the gate.
CycleIsReadyReturn(o) ==
    /\ rc[o].pc = "isReady"
    /\ lock' = rUnlock(lock, o)
    /\ rc' = [rc EXCEPT ![o].pc = IF gateClosed(RuntimeClientIsReady(ready))
                                  THEN "done" ELSE "fetch"]
    /\ UNCHANGED <<ready, items, wr, rd, hist, seqVars, cyc, sec, auxVars>>

\* Reconcile from r.Client.Get to the call of reconcileCABundle.
CycleFetch(o) ==
    /\ rc[o].pc = "fetch"
    /\ \E got \in CycleGetOutcomes[o] :
          rc' = [rc EXCEPT ![o] =
                    IF got.err # ErrNil
                    THEN IF IsNotFound(got.err)
                         THEN [pc |-> "unregister", cfg |-> notFoundConfig(CycleRequest(o))]
                         ELSE [pc |-> "done", cfg |-> NilPtr]
                    ELSE IF pauseStops(EnsurePausedCondition(got.obj))
                    THEN [pc |-> "done", cfg |-> NilPtr]
                    ELSE IF deletionRequested(got.obj)
                    THEN [pc |-> "unregister", cfg |-> got.obj]
                    ELSE IF readsSecret(got.obj)
                    THEN [pc |-> "secret", cfg |-> got.obj]
                    ELSE IF reconcileCABundle(got.obj, NilPtr).err # ErrNil
                    THEN [pc |-> "done", cfg |-> NilPtr]
                    ELSE [pc |-> "discover", cfg |-> got.obj]]
    /\ UNCHANGED <<ready, items, concVars, seqVars, cyc, sec, auxVars>>

\* reconcileCABundle: r.Client.Get of the secret answers.
CycleSecretReturn(o) ==
    /\ rc[o].pc = "secret"
    /\ \E secret \in SecretOutcomes :
          LET ca == reconcileCABundle(rc[o].cfg, secret)
          IN  rc' = [rc EXCEPT ![o] = IF ca.err # ErrNil
                                      THEN [pc |-> "done", cfg |-> NilPtr]
                                      ELSE [pc |-> "discover", cfg |-> ca.config]]
    /\ UNCHANGED <<ready, items, concVars, seqVars, cyc, sec, auxVars>>

\* discoverExtensionConfig: r.RuntimeClient.Discover answers; Reconcile
\* patches the object and returns the collected errors.
CycleDiscoverReturn(o) ==
    /\ rc[o].pc = "discover"
    /\ \E discovered \in CycleDiscoverOutcomes, patchErr \in PatchOutcomes :
          LET d == discoverExtensionConfig(rc[o].cfg, discovered)
          IN  rc' = [rc EXCEPT ![o] = IF returnsBeforeRegister(collectErrs(d.err, patchErr))
                                      THEN [pc |-> "done", cfg |-> NilPtr]
                                      ELSE [pc |-> "register", cfg |-> d.config]]
    /\ UNCHANGED <<ready, items, concVars, seqVars, cyc, sec, auxVars>>

\* Add: r.lock.Lock()
CycleRegisterLock(o) ==
    /\ rc[o].pc = "register"
    /\ CanLock(lock)
    /\ lock' = wLock(lock, o)
    /\ rc' = [rc EXCEPT ![o].pc = "registerLocked"]
    /\ UNCHANGED <<ready, items, wr, rd, hist, seqVars, cyc, sec, auxVars>>

\* Add: the body under the lock.
CycleRegisterBody(o) ==
    /\ rc[o].pc = "registerLocked"
    /\ items' = Register(ready, items, rc[o].cfg).items
    /\ rc' = [rc EXCEPT ![o] = [pc |-> "unlock", cfg |-> NilPtr]]
    /\ UNCHANGED <<ready, concVars, seqVars, cyc, sec, auxVars>>

\* Remove: r.lock.Lock()
CycleUnregisterLock(o) ==
    /\ rc[o].pc = "unregister"
    /\ CanLock(lock)
    /\ lock' = wLock(lock, o)
    /\ rc' = [rc EXCEPT ![o].pc = "unregisterLocked"]
    /\ UNCHANGED <<ready, items, wr, rd, hist, seqVars, cyc, sec, auxVars>>

\* Remove: the body under the lock.
CycleUnregisterBody(o) ==
    /\ rc[o].pc = "unregisterLocked"
    /\ items' = Unregister(ready, items, rc[o].cfg).items
    /\ rc' = [rc EXCEPT ![o] = [pc |-> "unlock", cfg |-> NilPtr]]
    /\ UNCHANGED <<ready, concVars, seqVars, cyc, sec, auxVars>>

\* Add and Remove return: the deferred Unlock runs.
CycleUnlock(o) ==
    /\ rc[o].pc = "unlock"
    /\ lock' = wUnlock(lock, o)
    /\ rc' = [rc EXCEPT ![o].pc = "done"]
    /\ UNCHANGED <<ready, items, wr, rd, hist, seqVars, cyc, sec, auxVars>>

\* Reconcile returns to the dispatcher.
CycleReturn(o) ==
    /\ rc[o].pc = "done"
    /\ rc' = [rc EXCEPT ![o] = CycleIdle]
    /\ UNCHANGED <<ready, items, concVars, seqVars, cyc, sec, auxVars>>

NextCycle ==
    \/ WarmUpLock(CycleLists)
    \/ WarmUpCheck
    \/ WarmUpAddRemove
    \/ WarmUpAddInsert
    \/ WarmUpFinish
    \/ Unlock(Warmer)
    \/ \E o \in ConfigNames : CycleIsReadyRLock(o)
    \/ \E o \in ConfigNames : CycleIsReadyReturn(o)
    \/ \E o \in ConfigNames : CycleFetch(o)
    \/ \E o \in ConfigNames : CycleSecretReturn(o)
    \/ \E o \in ConfigNames : CycleDiscoverReturn(o)
    \/ \E o \in ConfigNames : CycleRegisterLock(o)
    \/ \E o \in ConfigNames : CycleRegisterBody(o)
    \/ \E o \in ConfigNames : CycleUnregisterLock(o)
    \/ \E o \in ConfigNames : CycleUnregisterBody(o)
    \/ \E o \in ConfigNames : CycleUnlock(o)
    \/ \E o \in ConfigNames : CycleReturn(o)

SpecCycle == Init /\ [][NextCycle]_vars

---------------------------------------------------------------------------
(* The calls that change the registry, with the declarations recorded. *)

DeclWarmUp ==
    \E l \in ConfigLists \cup {NilPtr} :
        LET res == doWarmUp(ready, items, l)
        IN  /\ ready' = res.ready
            /\ items' = res.items
            /\ decl' = IF res.err = ErrNil THEN DeclareEach(decl, l.Items) ELSE decl
            /\ UNCHANGED <<seqVars, concVars, recVars, lv, th>>

DeclAdd ==
    \E c \in Configs \cup {NilPtr} :
        LET res == doAdd(ready, items, c)
        IN  /\ items' = res.items
            /\ decl' = IF res.err = ErrNil THEN Declare(decl, c) ELSE decl
            /\ UNCHANGED <<ready, seqVars, concVars, recVars, lv, th>>

DeclRemove ==
    \E c \in Configs \cup {NilPtr} :
        LET res == doRemove(ready, items, c)
        IN  /\ items' = res.items
            /\ decl' = IF c # NilPtr THEN Retract(decl, c) ELSE decl
            /\ UNCHANGED <<ready, seqVars, concVars, recVars, lv, th>>

NextDecl ==
    \/ DeclWarmUp
    \/ DeclAdd
    \/ DeclRemove

SpecDecl == Init /\ [][NextDecl]_vars

---------------------------------------------------------------------------
(* The cycles of one config under retry. *)

\* The object is created: the dispatcher queues a request for it.
LiveCreate ==
    /\ lv.phase = "none"
    /\ \E obj \in LiveObjects, want \in LiveWants :
          lv' = [NoLive EXCEPT !.phase = "flaky", !.queued = TRUE, !.obj = obj, !.want = want]
    /\ UNCHANGED <<ready, items, seqVars, concVars, recVars, decl, th>>

\* From now on the API server, the secret and the extension answer without
\* error.
LiveStabilise ==
    /\ lv.phase = "flaky"
    /\ lv' = [lv EXCEPT !.phase = "stable"]
    /\ UNCHANGED <<ready, items, seqVars, concVars, recVars, decl, th>>

\* The warm-up runnable warms the registry up.
LiveWarmUp ==
    /\ ~ready
    /\ \E l \in LiveLists :
          LET res == doWarmUp(ready, items, l)
          IN  /\ ready' = res.ready
              /\ items' = res.items
    /\ UNCHANGED <<seqVars, concVars, recVars, decl, lv, th>>

\* The dispatcher takes the request from the queue and runs one cycle.
LiveReconcile ==
    /\ lv.queued
    /\ \E getErr \in LiveGetErrs(lv.phase),
          secret \in IF readsSecret(lv.obj) THEN LiveSecretOutcomes(lv.phase) ELSE {NilPtr},
          discovered \in LiveDiscoverOutcomes(lv.phase, lv.want),
          patchErr \in LivePatchOutcomes(lv.phase) :
          LET out == reconcileOutcome(ready, items, lv.obj, getErr, secret, discovered, patchErr)
          IN  /\ items' = out.items
              /\ lv' = [lv EXCEPT !.obj = out.stored, !.queued = out.again,
                                  !.failed = @ \/ out.again]
    /\ UNCHANGED <<ready, seqVars, concVars, recVars, decl, th>>

NextLive ==
    \/ LiveCreate
    \/ LiveStabilise
    \/ LiveWarmUp
    \/ LiveReconcile

\* The dispatcher runs a queued request, the warm-up runnable runs.
SpecLive ==
    /\ Init
    /\ [][NextLive]_vars
    /\ WF_vars(LiveReconcile)
    /\ WF_vars(LiveWarmUp)

---------------------------------------------------------------------------
(* The steps of the goroutines that call any method of the registry. *)

\* A goroutine calls a method: the checks of the arguments.
LockCall(t) ==
    /\ th[t].pc = "idle"
    /\ \E call \in { c \in LockCalls : t \in LockReaders => c.op = "IsReady" } :
          th' = [th EXCEPT ![t] = IF argumentError(call) # ErrNil
                                  THEN [call EXCEPT !.pc = "rejected",
                                                    !.err = argumentError(call)]
                                  ELSE [call EXCEPT !.pc = "waiting"]]
    /\ UNCHANGED <<ready, items, seqVars, concVars, recVars, decl, lv>>

\* The call returns the error of its arguments.
LockReject(t) ==
    /\ th[t].pc = "rejected"
    /\ th' = [th EXCEPT ![t] = LockIdle]
    /\ UNCHANGED <<ready, items, seqVars, concVars, recVars, decl, lv>>

\* sync.RWMutex: a writer has announced itself and waits for the readers.
WriterPending == \E u \in LockThreads : th[u].pc = "pending"

\* r.lock.Lock(): the writer announces itself; from now on RLock blocks.
LockAnnounce(t) ==
    /\ th[t].pc = "waiting"
    /\ Writes(th[t])
    /\ lock.writer = "none"
    /\ ~WriterPending
    /\ th' = [th EXCEPT ![t].pc = "pending"]
    /\ UNCHANGED <<ready, items, seqVars, concVars, recVars, decl, lv>>

\* r.lock.Lock() returns when the readers have left; r.lock.RLock() returns
\* when no writer holds the lock or has announced itself.
LockAcquire(t) ==
    /\ IF Writes(th[t])
       THEN /\ th[t].pc = "pending"
            /\ CanLock(lock)
            /\ lock' = wLock(lock, t)
       ELSE /\ th[t].pc = "waiting"
            /\ CanRLock(lock)
            /\ ~WriterPending
            /\ lock' = rLock(lock, t)
    /\ th' = [th EXCEPT ![t].pc = "body"]
    /\ UNCHANGED <<ready, items, wr, rd, hist, seqVars, recVars, decl, lv>>

\* The body of the method, to its return statement.
LockBody(t) ==
    /\ th[t].pc = "body"
    /\ LET res == lockedBody(ready, items, th[t])
       IN  /\ ready' = res.ready
           /\ items' = res.items
           /\ th' = [th EXCEPT ![t].pc = "unlock", ![t].err = res.err]
    /\ UNCHANGED <<seqVars, concVars, recVars, decl, lv>>

\* The deferred r.lock.Unlock() or r.lock.RUnlock(), and the return.
LockUnlock(t) ==
    /\ th[t].pc = "unlock"
    /\ lock' = IF Writes(th[t]) THEN wUnlock(lock, t) ELSE rUnlock(lock, t)
    /\ th' = [th EXCEPT ![t] = LockIdle]
    /\ UNCHANGED <<ready, items, wr, rd, hist, seqVars, recVars, decl, lv>>

NextLock ==
    \/ \E t \in LockThreads : LockCall(t)
    \/ \E t \in LockThreads : LockReject(t)
    \/ \E t \in LockThreads : LockAnnounce(t)
    \/ \E t \in LockThreads : LockAcquire(t)
    \/ \E t \in LockThreads : LockBody(t)
    \/ \E t \in LockThreads : LockUnlock(t)

\* A goroutine that is not blocked makes its next step; a goroutine blocked
\* at Lock or RLock proceeds if it could proceed again and again.
SpecLock ==
    /\ Init
    /\ [][NextLock]_vars
    /\ \A t \in LockThreads :
          /\ WF_vars(LockReject(t))
          /\ SF_vars(LockAnnounce(t))
          /\ SF_vars(LockAcquire(t))
          /\ WF_vars(LockBody(t))
          /\ WF_vars(LockUnlock(t))

---------------------------------------------------------------------------
(* Vocabulary of the properties. *)

\* Every handler of the config has an APIVersion that ParseGroupVersion accepts.
HandlersParseable(c) ==
    \A i \in 1..Len(c.Handlers) : ParseGroupVersion(c.Handlers[i].APIVersion).ok

AllParseable(l) == \A i \in 1..Len(l.Items) : HandlersParseable(l.Items[i])

\* The keys of the entries a config name owns.
Owned(its, name) == { n \in DOMAIN its : its[n].ExtensionConfigName = name }

Range(f) == { f[x] : x \in DOMAIN f }

\* The last call was op with a non-nil config, on a registry that was ready.
ReadyCall(op) == last.op = op /\ last.cfg # NilPtr /\ prev.ready

\* The last call was a WarmUp with a non-nil list on a registry not yet ready.
ColdWarmUp == last.op = "WarmUp" /\ last.list # NilPtr /\ ~prev.ready

---------------------------------------------------------------------------
(* Properties of the registry. *)

\* C1: after WarmUp(C) on a registry that is not ready, the registry is ready
\* if and only if every handler of every config of C has a parseable
\* APIVersion, and IsReady reports the flag; on a registry that is not ready,
\* List (non-empty group and hook), Get, Add and Remove (non-nil config) fail
\* with an invalid-operation error.
C1_WarmUpReadyIffParseable ==
    /\ ColdWarmUp => (ready <=> AllParseable(last.list))
    /\ last.op = "IsReady" => (last.outBool = ready /\ ready = prev.ready)
    /\ (~prev.ready /\ last.op \in {"Add", "Remove"} /\ last.cfg # NilPtr)
          => last.err = InvalidOperation(last.op)
    /\ (~prev.ready /\ last.op = "Get") => last.err = InvalidOperation("Get")
    /\ (~prev.ready /\ last.op = "List" /\ last.gh.Group # <<>> /\ last.gh.Hook # "")
          => last.err = InvalidOperation("List")

\* A WarmUp of two configs, one parseable and one not, left the registry cold.
C1_Witness ==
    /\ ColdWarmUp
    /\ ~ready
    /\ Len(last.list.Items) = 2
    /\ \E i, j \in 1..2 :
          /\ Len(last.list.Items[i].Handlers) = 1
          /\ HandlersParseable(last.list.Items[i])
          /\ ~HandlersParseable(last.list.Items[j])

\* C2: a WarmUp that fails because a config has an unparseable handler leaves
\* the map empty and the readiness flag false, and returns an aggregate error,
\* whatever valid configs the list holds before or after the failing one.
C2_FailedWarmUpLeavesNothing ==
    (ColdWarmUp /\ ~AllParseable(last.list))
        => /\ items = EmptyItems
           /\ ~ready
           /\ last.err.kind = "aggregate"

\* A failed WarmUp whose first config is valid and declares a handler, and
\* whose second config is the one that fails.
C2_Witness ==
    /\ ColdWarmUp
    /\ Len(last.list.Items) = 2
    /\ Len(last.list.Items[1].Handlers) = 1
    /\ HandlersParseable(last.list.Items[1])
    /\ ~HandlersParseable(last.list.Items[2])
    /\ items = EmptyItems

\* C3: on a ready registry, an Add whose config has an unparseable handler
\* leaves the whole map as it was before the call, the registrations the
\* config owned before the call included.
C3_FailedAddLeavesMapUnchanged ==
    (ReadyCall("Add") /\ ~HandlersParseable(last.cfg)) => items = prev.items

\* C4: on a ready registry, an Add whose config has a malformed handler among
\* valid ones returns an error, inserts none of the config's handlers, and
\* leaves every registration of the other owners as it was.
C4_FailedAddInsertsNothing ==
    (ReadyCall("Add") /\ ~HandlersParseable(last.cfg))
        => /\ last.err.kind = "aggregate"
           /\ Owned(items, last.cfg.Name) = {}
           /\ \A n \in DOMAIN items : n \in DOMAIN prev.items /\ items[n] = prev.items[n]
           /\ \A n \in DOMAIN prev.items :
                 prev.items[n].ExtensionConfigName # last.cfg.Name
                    => n \in DOMAIN items /\ items[n] = prev.items[n]

\* A failed Add of a config with one valid and one malformed handler, on a
\* registry where the other owner holds a registration.
C4_Witness ==
    /\ ReadyCall("Add")
    /\ Len(last.cfg.Handlers) = 2
    /\ \E i, j \in 1..2 :
          /\ ParseGroupVersion(last.cfg.Handlers[i].APIVersion).ok
          /\ ~ParseGroupVersion(last.cfg.Handlers[j].APIVersion).ok
    /\ \E n \in DOMAIN prev.items : prev.items[n].ExtensionConfigName # last.cfg.Name
    /\ last.err # ErrNil

\* The (group, hook) pairs List accepts: neither part is empty.
Listable == { gh \in GroupHooks : gh.Group # <<>> /\ gh.Hook # "" }

\* The (group, hook) pairs under which List returns a registration of this name.
ListedUnder(its, name) ==
    { gh \in GroupHooks : \E reg \in doList(TRUE, its, gh).out : reg.Name = name }

\* C5: after a successful Add on a ready registry the registrations the config
\* owns are exactly those of the handlers its status declares; what it owned
\* before and no longer declares is gone, and each declared handler is listed
\* under the (group, hook) it declares now and under no other.  (List accepts
\* no empty group: a handler whose APIVersion names no group is registered
\* and listed under no pair.)
C5_AddReplacesOwnersRegistrations ==
    (ReadyCall("Add") /\ last.err = ErrNil)
        => /\ { items[n] : n \in Owned(items, last.cfg.Name) }
                = { NewRegistration(last.cfg, last.cfg.Handlers[i],
                                    ParseGroupVersion(last.cfg.Handlers[i].APIVersion)) :
                      i \in 1..Len(last.cfg.Handlers) }
           /\ \A i \in 1..Len(last.cfg.Handlers) :
                 LET e == last.cfg.Handlers[i]
                     gh == [Group |-> ParseGroupVersion(e.APIVersion).Group, Hook |-> e.Hook]
                 IN  ListedUnder(items, e.Name) = { gh } \cap Listable

\* A successful Add by an owner that held two registrations and now declares
\* one of them alone, on another hook.
C5_Witness ==
    /\ ReadyCall("Add")
    /\ last.err = ErrNil
    /\ Cardinality(Owned(prev.items, last.cfg.Name)) = 2
    /\ Len(last.cfg.Handlers) = 1
    /\ LET e == last.cfg.Handlers[1]
       IN  /\ prev.items[e.Name].GroupVersionHook.Hook = "BeforeScale"
           /\ e.Hook = "AfterProvision"
           /\ items[e.Name].GroupVersionHook.Hook = "AfterProvision"

\* C6: Add is idempotent per owner: on a ready registry, an Add of the same
\* config right after an Add leaves the map the first call left.
C6_AddIdempotent ==
    ReadyCall("Add") => doAdd(ready, items, last.cfg).items = items

\* An Add of a config with two handlers that changed nothing: the registry
\* already held exactly what the call registers.
C6_Witness ==
    /\ ReadyCall("Add")
    /\ last.err = ErrNil
    /\ Len(last.cfg.Handlers) = 2
    /\ Owned(prev.items, last.cfg.Name) = DOMAIN prev.items
    /\ items = prev.items

\* C7: on a ready registry, Remove deletes every registration the config owns
\* and no registration of another owner, whatever group and hook they share.
C7_RemoveDeletesExactlyOwned ==
    ReadyCall("Remove")
        => /\ last.err = ErrNil
           /\ DOMAIN items = (DOMAIN prev.items) \ Owned(prev.items, last.cfg.Name)
           /\ \A n \in DOMAIN items : items[n] = prev.items[n]

\* A Remove on a registry where the config and another owner each held a
\* registration on the same group and hook.
C7_Witness ==
    /\ ReadyCall("Remove")
    /\ \E n, m \in DOMAIN prev.items :
          /\ prev.items[n].ExtensionConfigName = last.cfg.Name
          /\ prev.items[m].ExtensionConfigName # last.cfg.Name
          /\ prev.items[n].GroupVersionHook.Group = prev.items[m].GroupVersionHook.Group
          /\ prev.items[n].GroupVersionHook.Hook = prev.items[m].GroupVersionHook.Hook
          /\ n \notin DOMAIN items
          /\ m \in DOMAIN items

\* C8: on a ready registry, Remove of a config that owns no registration
\* succeeds and leaves the map unchanged, and so does a second Remove of the
\* same config right after a first one.
C8_RemoveOfNothingIsNoOp ==
    /\ (ReadyCall("Remove") /\ Owned(prev.items, last.cfg.Name) = {})
          => (last.err = ErrNil /\ items = prev.items)
    /\ ReadyCall("Remove")
          => doRemove(ready, items, last.cfg) = [items |-> items, err |-> ErrNil]

\* A Remove of a config that owned nothing, on a registry that is not empty.
C8_Witness ==
    /\ ReadyCall("Remove")
    /\ Owned(prev.items, last.cfg.Name) = {}
    /\ prev.items # EmptyItems
    /\ last.err = ErrNil

\* The last call was a List with a non-empty group and hook on a ready registry.
ReadyList ==
    last.op = "List" /\ prev.ready /\ last.gh.Group # <<>> /\ last.gh.Hook # ""

\* C9: on a ready registry, List(group, hook) returns the registrations of the
\* map whose group and hook both equal the arguments: none with another group
\* or hook, and every matching one whatever its version.
C9_ListReturnsExactlyMatching ==
    ReadyList
        => /\ last.err = ErrNil
           /\ \A reg \in last.outList :
                 /\ reg \in Range(items)
                 /\ reg.GroupVersionHook.Group = last.gh.Group
                 /\ reg.GroupVersionHook.Hook = last.gh.Hook
           /\ \A n \in DOMAIN items :
                 (/\ items[n].GroupVersionHook.Group = last.gh.Group
                  /\ items[n].GroupVersionHook.Hook = last.gh.Hook)
                    => items[n] \in last.outList

\* A List that returned a registration while the map also held one of another
\* group on the same hook.
C9_Witness ==
    /\ ReadyList
    /\ last.outList # {}
    /\ \E n \in DOMAIN items :
          /\ items[n] \notin last.outList
          /\ items[n].GroupVersionHook.Hook = last.gh.Hook
          /\ items[n].GroupVersionHook.Group # last.gh.Group

\* C10: List fails with an argument error when the group or the hook is empty,
\* ready or not, and with an invalid-operation error when both are non-empty
\* and the registry is not ready; it never changes the registry.
C10_ListErrors ==
    last.op = "List"
        => /\ (last.gh.Group = <<>> \/ last.gh.Hook = "")
                 => last.err = InvalidArgument("List")
           /\ (last.gh.Group # <<>> /\ last.gh.Hook # "" /\ ~prev.ready)
                 => last.err = InvalidOperation("List")
           /\ items = prev.items
           /\ ready = prev.ready

\* A List with an empty group on a registry that is not ready: the argument
\* error is the one reported.
C10_Witness ==
    /\ last.op = "List"
    /\ ~prev.ready
    /\ last.gh.Group = <<>>
    /\ last.gh.Hook # ""
    /\ last.err = InvalidArgument("List")

\* C11: Get fails with an invalid-operation error on a registry that is not
\* ready, with a not-found error on a ready registry that has no registration
\* of that name, and otherwise returns the registration stored under the name.
C11_GetResults ==
    last.op = "Get"
        => /\ ~prev.ready
                 => (last.err = InvalidOperation("Get") /\ last.outReg = NilPtr)
           /\ (prev.ready /\ last.name \notin DOMAIN items)
                 => (last.err = NotRegistered(last.name) /\ last.outReg = NilPtr)
           /\ (prev.ready /\ last.name \in DOMAIN items)
                 => (last.err = ErrNil /\ last.outReg = items[last.name])
           /\ items = prev.items
           /\ ready = prev.ready

\* A Get that returned a registration while another name was registered too.
C11_Witness ==
    /\ last.op = "Get"
    /\ last.err = ErrNil
    /\ last.outReg # NilPtr
    /\ last.outReg.Name = last.name
    /\ Cardinality(DOMAIN items) = 2

\* C12: while the registry is not ready, Add and Remove fail (with the
\* invalid-operation error when the config is not nil) and leave the map and
\* the readiness flag unchanged.
C12_NoWriteBeforeWarmUp ==
    (~prev.ready /\ last.op \in {"Add", "Remove"})
        => /\ last.err # ErrNil
           /\ last.cfg # NilPtr => last.err = InvalidOperation(last.op)
           /\ items = prev.items
           /\ items = EmptyItems
           /\ ready = prev.ready
           /\ ~ready

\* An Add of a config with two parseable handlers on a registry not yet ready.
C12_Witness ==
    /\ last.op = "Add"
    /\ ~prev.ready
    /\ last.cfg # NilPtr
    /\ Len(last.cfg.Handlers) = 2
    /\ HandlersParseable(last.cfg)
    /\ last.err = InvalidOperation("Add")

\* C13: at most one WarmUp returns success in a behaviour, a WarmUp succeeds
\* only on a registry that is not ready, and a WarmUp on a ready registry
\* fails (with the invalid-operation error when the list is not nil) and
\* leaves the map and the readiness flag unchanged.
C13_WarmUpOnce ==
    /\ warmUps <= 1
    /\ (last.op = "WarmUp" /\ last.err = ErrNil) => (~prev.ready /\ ready)
    /\ (last.op = "WarmUp" /\ prev.ready)
          => /\ last.err # ErrNil
             /\ last.list # NilPtr => last.err = InvalidOperation("WarmUp")
             /\ items = prev.items
             /\ ready = prev.ready

\* A WarmUp with a parseable, non-empty list on a registry that an earlier
\* WarmUp made ready and that holds a registration.
C13_Witness ==
    /\ last.op = "WarmUp"
    /\ prev.ready
    /\ warmUps = 1
    /\ last.list # NilPtr
    /\ Len(last.list.Items) = 1
    /\ Len(last.list.Items[1].Handlers) = 1
    /\ AllParseable(last.list)
    /\ prev.items # EmptyItems
    /\ last.err = InvalidOperation("WarmUp")

\* C14: the map holds at most one registration per handler name, and after a
\* successful Add every handler the config declares is the registration Get
\* returns for its name, whoever owned that name before.
C14_NamesUnique ==
    /\ \A n, m \in DOMAIN items : items[n].Name = items[m].Name => n = m
    /\ (ReadyCall("Add") /\ last.err = ErrNil)
          => \A i \in 1..Len(last.cfg.Handlers) :
                LET e == last.cfg.Handlers[i]
                IN  doGet(ready, items, e.Name) =
                        [out |-> NewRegistration(last.cfg, e, ParseGroupVersion(e.APIVersion)),
                         err |-> ErrNil]

\* A successful Add of a handler name that another config owned before.
C14_Witness ==
    /\ ReadyCall("Add")
    /\ last.err = ErrNil
    /\ \E i \in 1..Len(last.cfg.Handlers) :
          LET n == last.cfg.Handlers[i].Name
          IN  /\ n \in DOMAIN prev.items
              /\ prev.items[n].ExtensionConfigName # last.cfg.Name
              /\ items[n].ExtensionConfigName = last.cfg.Name
              /\ items[n].GroupVersionHook # prev.items[n].GroupVersionHook

---------------------------------------------------------------------------
(* Properties of the registry under concurrent callers. *)

\* What a reader's call returns on a given registry.
ReadResult(call, snap) ==
    CASE call.op = "IsReady" ->
            [err |-> ErrNil, outList |-> {}, outReg |-> NilPtr, outBool |-> snap.ready]
      [] call.op = "List" ->
            [err |-> doList(snap.ready, snap.items, call.gh).err,
             outList |-> doList(snap.ready, snap.items, call.gh).out,
             outReg |-> NilPtr, outBool |-> FALSE]
      [] call.op = "Get" ->
            [err |-> doGet(snap.ready, snap.items, call.name).err, outList |-> {},
             outReg |-> doGet(snap.ready, snap.items, call.name).out, outBool |-> FALSE]

\* C15: writers exclude readers and other writers: no reader holds the lock
\* while a writer holds it, and what IsReady, List and Get read is the
\* registry as the last writer left it when it released the lock, never the
\* map of an Add between its remove and its insert nor the partly filled map
\* of a WarmUp.
C15_ReadersSeeCommitted ==
    /\ lock.writer # "none" => lock.readers = {}
    /\ lock.readers # {} => Snapshot = hist.committed
    /\ rd.pc = "runlock"
          => [err |-> rd.err, outList |-> rd.outList, outReg |-> rd.outReg,
              outBool |-> rd.outBool] = ReadResult(rd, hist.committed)
    /\ \A t \in WriterThreads : wr[t].pc # "idle" => lock.writer = t

\* The reader waits for the lock while an Add has removed the registration
\* its config owned and has not inserted the new one yet.
C15_Witness ==
    /\ rd.pc = "rlock"
    /\ rd.op = "Get"
    /\ \E o \in ConcOwners :
          /\ wr[o].pc = "insert"
          /\ wr[o].op = "Add"
          /\ rd.name \in DOMAIN hist.committed.items
          /\ hist.committed.items[rd.name].ExtensionConfigName = o
          /\ rd.name \notin DOMAIN items
          /\ rd.name \in NamesOf(wr[o].cfg)

\* The registrations a successful call leaves its config with: the handlers
\* of an Add, none after a Remove.
LeftBy(done) ==
    IF done.op = "Add"
    THEN { NewRegistration(done.cfg, done.cfg.Handlers[i],
                           ParseGroupVersion(done.cfg.Handlers[i].APIVersion)) :
             i \in 1..Len(done.cfg.Handlers) }
    ELSE {}

Quiescent == \A t \in WriterThreads : wr[t].pc = "idle"

\* C16: whenever no call is running, each config owns the registrations of
\* the last call made for it, whatever the interleaving of the calls of the
\* other configs: the handlers of its last successful Add, or none when a
\* Remove came after it.
C16_LastCallWins ==
    Quiescent
        => \A o \in ConfigNames :
              hist.lastGood[o].op # "none"
                  => { items[n] : n \in Owned(items, o) } = LeftBy(hist.lastGood[o])

---------------------------------------------------------------------------
(* Properties of the reconciler.  After a cycle, prev is the registry the
   cycle started on. *)

Cycled == cyc.op = "Reconcile"

\* The cycle fetched the object and found it.
Fetched == Cycled /\ cyc.got # NilPtr /\ cyc.got.err = ErrNil

\* The map without the registrations a config name owns.
WithoutOwner(its, name) ==
    [n \in { k \in DOMAIN its : its[k].ExtensionConfigName # name } |-> its[n]]

\* C17: a cycle that starts on a registry that is not ready asks for a
\* requeue and returns no error; it calls nothing after IsReady (no fetch,
\* no discovery, no patch, no Register, no Unregister) and leaves the
\* registry as it was.
C17_ReadinessGate ==
    (Cycled /\ ~prev.ready)
        => /\ cyc.result = [Requeue |-> TRUE]
           /\ cyc.err = ErrNil
           /\ cyc.calls = <<"IsReady">>
           /\ cyc.got = NilPtr
           /\ cyc.unregistered = NilPtr
           /\ cyc.patched = NilPtr
           /\ cyc.registered = NilPtr
           /\ Snapshot = prev

C17_Witness ==
    /\ Cycled
    /\ ~prev.ready
    /\ cyc.result.Requeue

\* C18: on a ready registry, when the fetch answers that the object does not
\* exist, the cycle calls Unregister with an otherwise empty config that
\* carries the name and the namespace of the request, and calls neither the
\* secret fetch, nor discovery, nor patch, nor Register.
C18_NotFoundUnregisters ==
    (Cycled /\ prev.ready /\ cyc.got # NilPtr /\ cyc.got.err = ErrNotFound)
        => /\ cyc.calls = <<"IsReady", "Get", "Unregister">>
           /\ cyc.unregistered =
                 [EmptyExtensionConfig EXCEPT !.Name = cyc.req.Name,
                                              !.Namespace = cyc.req.Namespace]
           /\ cyc.patched = NilPtr
           /\ cyc.registered = NilPtr

\* The object of the request is gone and the cycle has removed the
\* registrations its name owned.
C18_Witness ==
    /\ Cycled
    /\ prev.ready
    /\ cyc.got # NilPtr
    /\ cyc.got.err = ErrNotFound
    /\ Owned(prev.items, cyc.req.Name) # {}
    /\ Owned(items, cyc.req.Name) = {}
    /\ cyc.unregistered.Namespace = cyc.req.Namespace

\* C19: when the fetched object is not paused and carries a deletion marker,
\* the cycle calls Unregister (Registry.Remove) with that object and nothing
\* after it: no secret fetch, no discovery, no patch, no Register.  The
\* registry loses exactly the registrations the config owned, and after a
\* cycle without error the config owns none.
C19_DeletionRemovesOnly ==
    (Fetched /\ ~cyc.got.obj.Paused /\ cyc.got.obj.DeletionTimestamp # ZeroTime)
        => /\ cyc.calls = <<"IsReady", "Get", "EnsurePausedCondition", "Unregister">>
           /\ cyc.unregistered = cyc.got.obj
           /\ cyc.patched = NilPtr
           /\ cyc.registered = NilPtr
           /\ items = WithoutOwner(prev.items, cyc.got.obj.Name)
           /\ ready = prev.ready
           /\ cyc.err = ErrNil => Owned(items, cyc.got.obj.Name) = {}

\* The deleted config owned a registration, which is gone, and another
\* config keeps its own.
C19_Witness ==
    /\ Fetched
    /\ ~cyc.got.obj.Paused
    /\ cyc.got.obj.DeletionTimestamp # ZeroTime
    /\ cyc.err = ErrNil
    /\ Owned(prev.items, cyc.got.obj.Name) # {}
    /\ Owned(items, cyc.got.obj.Name) = {}
    /\ items # EmptyItems

\* C20: when the fetched object is paused, with or without a deletion
\* marker, the cycle calls nothing after the pause check: no secret fetch,
\* no discovery, no patch, no Register, no Unregister; the registry is as it
\* was.
C20_PausedDoesNothing ==
    (Fetched /\ cyc.got.obj.Paused)
        => /\ cyc.calls = <<"IsReady", "Get", "EnsurePausedCondition">>
           /\ cyc.unregistered = NilPtr
           /\ cyc.patched = NilPtr
           /\ cyc.registered = NilPtr
           /\ Snapshot = prev

\* A paused object with a deletion marker and a secret annotation, whose
\* config owns a registration.
C20_Witness ==
    /\ Fetched
    /\ cyc.got.obj.Paused
    /\ cyc.got.obj.DeletionTimestamp # ZeroTime
    /\ readsSecret(cyc.got.obj)
    /\ Owned(items, cyc.got.obj.Name) # {}

---------------------------------------------------------------------------
(* Properties of the mutation pipeline. *)

\* The cycle made the call.
Called(name) == \E i \in 1..Len(cyc.calls) : cyc.calls[i] = name

\* The message of the condition carries the error about the missing entry.
MessageNames(condition, arg) ==
    /\ Len(condition.Message) >= 2
    /\ condition.Message[2] = Errorf("secret does not contain an entry", arg)

\* C21: when reconcileCABundle fails (annotation not of the form
\* <namespace>/<name>, secret fetch error, or secret without the CA key), the
\* cycle still calls discovery and the patch, and returns an error.
C21_PipelineContinues ==
    (Cycled /\ cyc.caErr # ErrNil)
        => /\ Called("Discover")
           /\ Called("Patch")
           /\ cyc.err # ErrNil

\* The secret of the annotation was fetched and has no CA key.
SecretLacksKey ==
    /\ Cycled
    /\ cyc.secret # NilPtr
    /\ cyc.secret.err = ErrNil
    /\ tlsCAKey \notin DOMAIN cyc.secret.Data

\* C22: a cycle whose secret lacks the CA key leaves the registry unchanged,
\* attempts the patch of the object, and the object handed to the patch has
\* a false condition whose message names the missing key.
C22_MissingKeyCondition ==
    SecretLacksKey
        => /\ Snapshot = prev
           /\ Called("Patch")
           /\ cyc.patched # NilPtr
           /\ cyc.patched.modified.Discovered.Status = "False"
           /\ MessageNames(cyc.patched.modified.Discovered, tlsCAKey)

\* The cycle reached the discovery call.
Discovering == Cycled /\ cyc.discovered # NilPtr

DiscoveryFailed == Discovering /\ cyc.discovered.err # ErrNil

PatchFailed == Discovering /\ cyc.patched.err # ErrNil

\* C23: after a failed discovery call the object handed to the patch has the
\* Discovered condition false with the error in its message and the handler
\* list of the fetched object; after a successful one the condition is true
\* and the handler list is the one the call returned.
C23_DiscoveryOutcomeOnObject ==
    Discovering
        => IF cyc.discovered.err # ErrNil
           THEN /\ cyc.patched.modified.Discovered.Status = "False"
                /\ \E i \in 2..Len(cyc.patched.modified.Discovered.Message) :
                      cyc.patched.modified.Discovered.Message[i] = cyc.discovered.err
                /\ cyc.patched.modified.Handlers = cyc.got.obj.Handlers
           ELSE /\ cyc.patched.modified.Discovered.Status = "True"
                /\ cyc.patched.modified.Handlers = cyc.discovered.Handlers

\* Discovery failed for an object that had a handler from an earlier cycle.
C23_Witness ==
    /\ DiscoveryFailed
    /\ cyc.got.obj.Handlers # <<>>
    /\ cyc.patched.modified.Handlers = cyc.got.obj.Handlers

\* C24: a cycle whose discovery call fails leaves the registry map as it
\* was, the registrations of the config included, and returns an error.
C24_FailedDiscoveryKeepsRegistry ==
    DiscoveryFailed
        => /\ items = prev.items
           /\ ready = prev.ready
           /\ cyc.err # ErrNil

\* Discovery failed for a config that owns a registration, which is kept.
C24_Witness ==
    /\ DiscoveryFailed
    /\ Owned(prev.items, cyc.req.Name) # {}
    /\ Owned(items, cyc.req.Name) = Owned(prev.items, cyc.req.Name)
    /\ cyc.got.obj.Handlers = <<>>

\* C25: every cycle that calls discovery calls the patch, against the
\* fetched object; when the secret was read and its bundle injected and
\* discovery failed, the object handed to the patch has the bundle of the
\* secret and the false Discovered condition.
C25_PatchAlwaysAttempted ==
    /\ Called("Discover") => Called("Patch") /\ cyc.patched # NilPtr
    /\ Discovering => cyc.patched.original = cyc.got.obj
    /\ (DiscoveryFailed /\ cyc.secret # NilPtr)
          => /\ cyc.patched.modified.ClientConfig.CABundle = cyc.secret.Data[tlsCAKey]
             /\ cyc.patched.modified.Discovered.Status = "False"

\* The bundle of the secret differs from the one of the fetched object,
\* discovery failed, and the patch was applied.
C25_Witness ==
    /\ DiscoveryFailed
    /\ cyc.secret # NilPtr
    /\ cyc.patched.modified.ClientConfig.CABundle # cyc.got.obj.ClientConfig.CABundle
    /\ cyc.patched.err = ErrNil
    /\ cyc.stored = cyc.patched.modified

\* C26: Register is called in a cycle only after discovery and the patch
\* both succeeded in it, and then with the discovered object; when either
\* failed it is not called.
C26_RegisterOnlyAfterSuccess ==
    /\ Called("Register")
          => /\ Discovering
             /\ cyc.discovered.err = ErrNil
             /\ cyc.patched.err = ErrNil
    /\ Discovering
          => IF cyc.discovered.err # ErrNil \/ cyc.patched.err # ErrNil
             THEN ~Called("Register") /\ cyc.registered = NilPtr /\ items = prev.items
             ELSE /\ Called("Register")
                  /\ cyc.registered = cyc.patched.modified
                  /\ cyc.registered.Handlers = cyc.discovered.Handlers

\* Discovery and patch succeeded and Register changed the registry.
C26_Witness ==
    /\ Called("Register")
    /\ cyc.registerErr = ErrNil
    /\ items # prev.items
    /\ Owned(items, cyc.req.Name) # {}

\* C27: when Register fails, the cycle returns an error and the object in
\* the store keeps what the patch of the cycle applied: the discovered
\* handler list and the true Discovered condition.
C27_RegisterFailureKeepsPatch ==
    (Cycled /\ cyc.registerErr # ErrNil)
        => /\ cyc.err # ErrNil
           /\ cyc.stored.Handlers = cyc.discovered.Handlers
           /\ cyc.stored.Discovered.Status = "True"

\* Register failed on a discovered handler whose APIVersion does not parse;
\* the stored object has the discovered handlers, not the fetched ones.
C27_Witness ==
    /\ Cycled
    /\ cyc.registerErr # ErrNil
    /\ ~HandlersParseable(cyc.registered)
    /\ cyc.stored.Handlers # cyc.got.obj.Handlers
    /\ cyc.stored.Discovered.Status = "True"

\* C28: a cycle in which reconcileCABundle, discovery, the patch or Register
\* failed returns an error; when discovery and the patch both failed the
\* error is the aggregate of the two.
C28_ErrorsReturned ==
    Cycled
        => /\ (\/ cyc.caErr # ErrNil
               \/ cyc.secret # NilPtr /\ cyc.secret.err # ErrNil
               \/ DiscoveryFailed
               \/ PatchFailed
               \/ cyc.registerErr # ErrNil) => cyc.err # ErrNil
           /\ (DiscoveryFailed /\ PatchFailed)
                 => /\ cyc.err.kind = "aggregate"
                    /\ Len(cyc.err.errs) = 2
                    /\ cyc.err.errs[1].cause = cyc.discovered.err
                    /\ cyc.err.errs[2] = cyc.patched.err

\* Discovery and the patch both failed in the cycle.
C28_Witness ==
    /\ DiscoveryFailed
    /\ PatchFailed
    /\ cyc.err.kind = "aggregate"

---------------------------------------------------------------------------
(* Properties of the secret watch. *)

SecretEvent == sec.op = "secretToExtensionConfig"

\* The names of the configs the event re-queues.
Requeued == { sec.result[i].Name : i \in 1..Len(sec.result) }

\* The stored configs whose annotation is <namespace>/<name> of the secret.
NamingSecret ==
    { n \in DOMAIN sec.store :
        /\ InjectCAFromSecretAnnotation \in DOMAIN sec.store[n]
        /\ sec.store[n][InjectCAFromSecretAnnotation]
              = sec.secret.Namespace \o <<"/">> \o sec.secret.Name }

---------------------------------------------------------------------------
(* Properties of the cycles that run next to each other. *)

\* The cycle of config o holds r.lock, for reading or for writing.
HoldsLock(o) == lock.writer = o \/ o \in lock.readers

\* The cycle of config o is inside the secret fetch or the discovery call.
InExternalCall(o) == rc[o].pc \in {"secret", "discover"}

\* The cycle of config o is inside a call of the registry.
InRegistryCall(o) ==
    rc[o].pc \in {"isReady", "registerLocked", "unregisterLocked", "unlock"}

\* C30: a cycle that is inside the secret fetch or the discovery call holds
\* neither the read lock nor the write lock of the registry, and whoever
\* holds the lock is inside a call of the registry, so that the lock other
\* cycles wait for is never held across a secret fetch or a discovery call.
C30_NoLockAcrossExternalCalls ==
    /\ \A o \in ConfigNames : InExternalCall(o) => ~HoldsLock(o)
    /\ \A o \in ConfigNames : HoldsLock(o) => InRegistryCall(o)

\* One cycle is inside the discovery call while the cycle of another config
\* holds the write lock inside Register.
C30_Witness ==
    \E o, p \in ConfigNames :
        /\ o # p
        /\ rc[o].pc = "discover"
        /\ rc[p].pc = "registerLocked"
        /\ lock.writer = p

---------------------------------------------------------------------------
(* Properties of the registry against the declarations of its callers. *)

\* C31: every registration in the map is owned by a config name whose last
\* config passed to a WarmUp or an Add that returned nil declared a handler
\* of the registration's name, and no Remove of that name was called since.
C31_RegistrationsAreDeclared ==
    \A k \in DOMAIN items :
        /\ ~decl[items[k].ExtensionConfigName].removed
        /\ items[k].Name \in decl[items[k].ExtensionConfigName].names

\* Two configs declared the same handler name and neither was removed: the
\* registration of that name is owned by one of them.
C31_Witness ==
    \E k \in DOMAIN items, o \in ConfigNames :
        /\ o # items[k].ExtensionConfigName
        /\ k \in decl[o].names
        /\ ~decl[o].removed

---------------------------------------------------------------------------
(* Properties of the CA-bundle injection. *)

\* The cycle called reconcileCABundle: the object was fetched, is not
\* paused and is not being deleted.
Injecting ==
    /\ Cycled
    /\ cyc.got # NilPtr
    /\ cyc.got.err = ErrNil
    /\ ~cyc.got.obj.Paused
    /\ cyc.got.obj.DeletionTimestamp = ZeroTime

Annotated(obj) == InjectCAFromSecretAnnotation \in DOMAIN obj.Annotations

\* A reference without a namespace or without a name before or after its
\* first separator.
LacksNamespaceOrName(ref) ==
    \/ \A i \in 1..Len(ref) : ref[i] # Separator
    \/ ref[1] = Separator
    \/ \E i \in 1..Len(ref) :
          /\ ref[i] = Separator
          /\ \A j \in 1..(i - 1) : ref[j] # Separator
          /\ i = Len(ref)

\* The secret fetch of the cycle answered with a secret that has the CA key.
SecretHasKey ==
    /\ cyc.secret # NilPtr
    /\ cyc.secret.err = ErrNil
    /\ tlsCAKey \in DOMAIN cyc.secret.Data

\* C32: reconcileCABundle in a cycle.  Without the annotation it returns nil,
\* reads no secret and leaves the CA bundle as fetched; with an annotation
\* that lacks a namespace or a name it fails without reading a secret; when
\* the secret fetch fails or the secret has no CA key it fails; whenever it
\* fails the CA bundle of the object is the fetched one; otherwise the CA
\* bundle is exactly the bytes under the key.
C32_CABundleInjection ==
    Injecting
        => LET obj == cyc.got.obj
               ca == reconcileCABundle(obj, cyc.secret)
           IN  /\ cyc.caErr = ca.err
               /\ ~Annotated(obj)
                     => /\ cyc.caErr = ErrNil
                        /\ ~Called("GetSecret")
                        /\ ca.config.ClientConfig.CABundle = obj.ClientConfig.CABundle
                        /\ cyc.patched.modified.ClientConfig.CABundle = obj.ClientConfig.CABundle
               /\ (Annotated(obj)
                     /\ LacksNamespaceOrName(obj.Annotations[InjectCAFromSecretAnnotation]))
                     => /\ cyc.caErr # ErrNil
                        /\ ~Called("GetSecret")
               /\ (Annotated(obj)
                     /\ ~LacksNamespaceOrName(obj.Annotations[InjectCAFromSecretAnnotation]))
                     => /\ Called("GetSecret")
                        /\ cyc.caErr # ErrNil <=> ~SecretHasKey
               /\ cyc.caErr # ErrNil
                     => /\ ca.config.ClientConfig.CABundle = obj.ClientConfig.CABundle
                        /\ cyc.stored.ClientConfig.CABundle = obj.ClientConfig.CABundle
               /\ (Annotated(obj) /\ cyc.caErr = ErrNil)
                     => /\ ca.config.ClientConfig.CABundle = cyc.secret.Data[tlsCAKey]
                        /\ cyc.patched.modified.ClientConfig.CABundle = cyc.secret.Data[tlsCAKey]

\* The secret of a well-formed annotation was read and its bytes, which
\* differ from the fetched bundle, are on the object that was registered.
C32_Witness ==
    /\ Injecting
    /\ SecretHasKey
    /\ Called("Register")
    /\ cyc.registered.ClientConfig.CABundle = cyc.secret.Data[tlsCAKey]
    /\ cyc.registered.ClientConfig.CABundle # cyc.got.obj.ClientConfig.CABundle

---------------------------------------------------------------------------
(* Properties of the order of the warm-up list. *)

\* The positions of the list whose config declares a handler of the name.
Declaring(list, n) ==
    { i \in 1..Len(list.Items) : n \in DeclaredNames(list.Items[i]) }

\* C33: after a WarmUp that returned nil for a list in which two configs
\* declare the same handler name, the map holds exactly one registration of
\* that name, owned by the config that comes last in the list among those
\* that declare it.
C33_LastConfigOfListWins ==
    (ColdWarmUp /\ last.err = ErrNil)
        => \A n \in HandlerNames :
              Cardinality(Declaring(last.list, n)) >= 2
                  => /\ Cardinality({ k \in DOMAIN items : items[k].Name = n }) = 1
                     /\ \E i \in Declaring(last.list, n) :
                           /\ \A j \in Declaring(last.list, n) : j <= i
                           /\ items[n].ExtensionConfigName = last.list.Items[i].Name

\* A warm-up that returned nil for a list of two configs that declare the
\* same handler name with different hooks.
C33_Witness ==
    /\ ColdWarmUp
    /\ last.err = ErrNil
    /\ \E n \in HandlerNames :
          /\ Declaring(last.list, n) = {1, 2}
          /\ last.list.Items[1].Handlers[1].Hook # last.list.Items[2].Handlers[1].Hook
          /\ items[n].GroupVersionHook.Hook = last.list.Items[2].Handlers[1].Hook

---------------------------------------------------------------------------
(* Properties of the retries. *)

\* The registrations the config under retry owns are exactly those of the
\* handlers the extension answers with, built from the stored object.
LiveHolds ==
    /\ lv.obj # NilPtr
    /\ { items[k] : k \in Owned(items, lv.obj.Name) } =
           Range(parseHandlers(lv.obj, lv.want).registrations)

\* C34: with failed cycles queued again and the dispatcher and the warm-up
\* scheduled fairly, from the moment the fetch of the object, the secret
\* fetch, the discovery call and the patch succeed for a config that is not
\* paused and not being deleted and whose discovered handlers parse, the
\* registry eventually holds exactly the discovered handlers for the config.
C34_ExternalErrorsRetried == (lv.phase = "stable") ~> LiveHolds

\* After at least one cycle that was run again, the registry holds the
\* discovered handler of the config, with the bundle of the secret.
C34_Witness ==
    /\ lv.phase = "stable"
    /\ lv.failed
    /\ ~lv.queued
    /\ lv.want # <<>>
    /\ readsSecret(lv.obj)
    /\ LiveHolds

---------------------------------------------------------------------------
(* Properties of the readiness flag over the calls. *)

\* C35: readiness is monotonic.  No call of WarmUp, Add, Remove, List or Get,
\* successful or failing, takes a ready registry to one that is not ready,
\* and IsReady returns the flag: once it has returned true it returns true
\* in every later state.
C35_ReadinessMonotonic ==
    [][/\ ready => ready'
       /\ last'.op = "IsReady" => last'.outBool = ready]_vars

\* A WarmUp that failed on a registry that was ready, which is ready still.
C35_Witness ==
    /\ last.op = "WarmUp"
    /\ last.list # NilPtr
    /\ prev.ready
    /\ last.err # ErrNil
    /\ ready

---------------------------------------------------------------------------
(* Properties of the registry that is not ready. *)

\* C36: whenever no writer holds the lock, a registry that is not ready has
\* an empty map, also after WarmUp, Add and Remove calls that failed.
C36_NotReadyIsEmpty ==
    (lock.writer = "none" /\ ~ready) => items = EmptyItems

\* The lock is free and the registry is not ready after a WarmUp that
\* returned an error and a call of Add or Remove that returned one.
C36_Witness ==
    /\ lock.writer = "none"
    /\ ~ready
    /\ hist.warmUp.err # ErrNil
    /\ hist.committed.items = EmptyItems
    /\ hist.events["A"] >= 1

---------------------------------------------------------------------------
(* Properties of the keys of the map. *)

\* C37: every entry of the map is stored under the Name of its
\* registration; a Get that returns a registration returns one whose Name is
\* the name asked for; and the keys a Remove deletes are exactly the keys of
\* the entries of the owner it ranges over.
C37_KeysAreNames ==
    /\ \A k \in DOMAIN items : items[k].Name = k
    /\ (last.op = "Get" /\ last.err = ErrNil) => last.outReg.Name = last.name
    /\ ReadyCall("Remove")
          => (DOMAIN prev.items) \ (DOMAIN items) = Owned(prev.items, last.cfg.Name)

\* A Remove of a config that owned an entry while another config owned one,
\* which is still stored under its name.
C37_Witness ==
    /\ ReadyCall("Remove")
    /\ Owned(prev.items, last.cfg.Name) # {}
    /\ \E k \in DOMAIN items :
          /\ items[k].Name = k
          /\ items[k].ExtensionConfigName # last.cfg.Name

---------------------------------------------------------------------------
(* Properties of what a call leaves alone. *)

\* C38: after an Add that returned nil, every registration that another
\* config owned before the call and whose name the config of the call does
\* not declare is in the map as it was before the call.
C38_AddFrame ==
    (ReadyCall("Add") /\ last.err = ErrNil)
        => \A k \in DOMAIN prev.items :
              (/\ prev.items[k].ExtensionConfigName # last.cfg.Name
               /\ prev.items[k].Name \notin DeclaredNames(last.cfg))
                  => /\ k \in DOMAIN items
                     /\ items[k] = prev.items[k]

\* An Add that returned nil on a map where another config owned two names:
\* the one the config declares is taken over, the other one is as before.
C38_Witness ==
    /\ ReadyCall("Add")
    /\ last.err = ErrNil
    /\ \E k, m \in DOMAIN prev.items :
          /\ prev.items[k].ExtensionConfigName # last.cfg.Name
          /\ prev.items[m].ExtensionConfigName # last.cfg.Name
          /\ k \in DeclaredNames(last.cfg)
          /\ m \notin DeclaredNames(last.cfg)
          /\ items[k].ExtensionConfigName = last.cfg.Name
          /\ items[m] = prev.items[m]

---------------------------------------------------------------------------
(* Properties of calls made in either order. *)

\* No name the config declares is owned by another config in the map.
NamesFree(its, extensionConfig) ==
    \A n \in DeclaredNames(extensionConfig) \cap DOMAIN its :
        its[n].ExtensionConfigName = extensionConfig.Name

\* The configs that commute with config a on the map: valid, of another
\* name, declaring other handler names, their names not owned by another.
Independent(its, a) ==
    { b \in Configs :
        /\ b.Name # a.Name
        /\ HandlersParseable(b)
        /\ DeclaredNames(b) \cap DeclaredNames(a) = {}
        /\ NamesFree(its, a)
        /\ NamesFree(its, b) }

\* C39: for valid configs A and B of different names with disjoint handler
\* names, on a ready registry where no name of either is owned by another
\* config, Add(A) then Add(B) leaves the map that Add(B) then Add(A) leaves,
\* and Add(A) then Remove(B) the map that Remove(B) then Add(A) leaves.  A is
\* the config of the Add just made, B ranges over the configs independent
\* of it.
C39_IndependentCallsCommute ==
    (ReadyCall("Add") /\ last.err = ErrNil)
        => \A b \in Independent(prev.items, last.cfg) :
              /\ doAdd(ready, items, b).items =
                    doAdd(ready, doAdd(prev.ready, prev.items, b).items, last.cfg).items
              /\ doRemove(ready, items, b).items =
                    doAdd(ready, doRemove(prev.ready, prev.items, b).items, last.cfg).items

\* An Add of a config that owned an entry before, on a map where an
\* independent config that declares a handler owned one too.
C39_Witness ==
    /\ ReadyCall("Add")
    /\ last.err = ErrNil
    /\ last.cfg.Handlers # <<>>
    /\ Owned(prev.items, last.cfg.Name) # {}
    /\ \E b \in Independent(prev.items, last.cfg) :
          /\ b.Handlers # <<>>
          /\ Owned(prev.items, b.Name) # {}
          /\ doAdd(ready, items, b).items # items
          /\ doRemove(ready, items, b).items # items

---------------------------------------------------------------------------
(* Properties of the lock over all the methods. *)

\* The goroutine holds r.lock, for reading or for writing.
Holds(t) == lock.writer = t \/ t \in lock.readers

\* C40: a goroutine holds the lock only between the acquisition and the
\* return of its call, on the error paths too, and under fair scheduling
\* every call of WarmUp, IsReady, Add, Remove, List or Get returns: no set
\* of concurrent calls blocks for ever.
C40_CallsReturnAndRelease ==
    /\ [](\A t \in LockThreads : Holds(t) <=> th[t].pc \in {"body", "unlock"})
    /\ \A t \in LockThreads : (th[t].pc # "idle") ~> (th[t].pc = "idle")

\* A call is about to return an error with the write lock still held while
\* a writer and a reader wait for the lock.
C40_Witness ==
    \E t, u, v \in LockThreads :
        /\ th[t].pc = "unlock"
        /\ Writes(th[t])
        /\ th[t].err # ErrNil
        /\ lock.writer = t
        /\ th[u].pc = "waiting"
        /\ Writes(th[u])
        /\ th[v].pc = "waiting"
        /\ ~Writes(th[v])

=============================================================================
